---- MODULE Spec2Model ----
(***************************************************************************)
(* A model of the object-io storage server.                                *)
(*                                                                         *)
(*  - ObjectDB (crates/object-io-database): the sled-backed catalog with   *)
(*    per-bucket counters.  Every sled call is one atomic step; an async   *)
(*    method is the sequence of its sled calls, so that two tasks running  *)
(*    on the multi-threaded runtime interleave between them.               *)
(*  - the HTTP handlers (crates/object-io-api), the MetadataOperations     *)
(*    catalog they consult and the FilesystemStorage backend they write.   *)
(*                                                                         *)
(* Strings are sequences of tokens: a token is a run of ordinary           *)
(* characters ("a", "txt", "meta") or one of the separators ":", "/", ".". *)
(***************************************************************************)
EXTENDS Integers, Sequences, FiniteSets, TLC

VARIABLES
    db_buckets,   \* ObjectDB.buckets : bucket name -> BucketInfo (partial function)
    db_objects,   \* ObjectDB.objects : "bucket:key" -> ObjectInfo (partial function)
    db_task,      \* each ObjectDB caller: the call it is in and that call's locals
    db_call,      \* history: the ObjectDB call started last, with the state it found
    db_hist,      \* history: what kinds of call have happened so far
    db_calls,     \* history: the number of ObjectDB calls started
    md_buckets,   \* MetadataOperations: the rows of table bucket (their names)
    md_objects,   \* MetadataOperations: the rows of table object
    fs_files,     \* FilesystemStorage: path -> bytes of each regular file under the root
    fs_dirs,      \* FilesystemStorage: the directories under the root
    api_task,     \* each request task: the handler it is in and the handler's locals
    api_call,     \* history: what each running request found when it started
    api_commit,   \* history: (bucket, key) -> body of the last PutObject answered 200
                  \*          and not deleted since
    api_former,   \* history: the (bucket, key) a deleted bucket held
    fn_arg,       \* a function called on its own: its argument
    fn_res,       \* ... and its result ("pending" before the call)
    ls_arg,       \* a call of list_objects on the storage backend: its arguments
    ls_res,       \* ... and the keys of the objects it returned, in their order
    clock,        \* the wall-clock time
    fn_first,     \* history: the first call of the function, argument and result
    md_users,     \* MetadataOperations: the rows of table user
    console,      \* the lines printed to the console
    us_res,       \* the users the last list_users returned
    md_res,       \* the last call of an object operation of MetadataOperations and
                  \* its result
    md_pages      \* a caller listing a bucket page by page: the pages it got

db_vars == <<db_buckets, db_objects, db_task, db_call, db_hist, db_calls>>

api_vars == <<md_buckets, md_objects, fs_files, fs_dirs, api_task, api_call, api_commit,
              api_former>>

meta_vars == <<md_res, md_pages>>

user_vars == <<md_users, console, us_res, meta_vars>>

fn_vars == <<fn_arg, fn_res, ls_arg, ls_res, clock, fn_first, user_vars>>

\* What a function called on its own leaves alone.
store_vars == <<db_vars, api_vars, user_vars>>

vars == <<db_vars, api_vars, fn_vars>>

\* ------------------------------------------------------------------ bounds

NumDbTasks == 2

NumApiTasks == 2

MaxSize == 2

MaxDbCalls == 4

MaxNameLen == 4

MaxParts == 3

MaxQueryLen == 5

MaxClock == 2

\* ------------------------------------------------------------------ helpers

Max(a, b) == IF a >= b THEN a ELSE b

IsPrefix(s, t) == /\ Len(s) <= Len(t)
                  /\ SubSeq(t, 1, Len(s)) = s

RECURSIVE SumOver(_, _)
SumOver(S, f) ==
    IF S = {} THEN 0
    ELSE LET x == CHOOSE y \in S : TRUE
         IN  f[x] + SumOver(S \ {x}, f)

\* ------------------------------------------------------------------ ObjectDB

DbTasks == 1..NumDbTasks

DbBucketNames == { <<"a">>, <<"b">> }

DbKeys == { <<"k">>, <<"k", ".", "txt">> }

Sizes == 1..MaxSize

\* BucketInfo::new: the record a caller hands to create_bucket.
BucketInfoNew(name) == [name |-> name, object_count |-> 0, total_size |-> 0]

ObjectInfo(bucket, key, size) == [bucket |-> bucket, key |-> key, size |-> size]

\* format!("{}:{}", bucket, key)
ObjectKey(bucket, key) == bucket \o <<":">> \o key

NoBucket == [name |-> <<>>, object_count |-> 0, total_size |-> 0]

DbIdle == [pc |-> "idle", op |-> "none", bucket |-> <<>>, key |-> <<>>, size |-> 0,
           info |-> NoBucket, ret |-> "none"]

NoCall == [op |-> "none", task |-> 0, bucket |-> <<>>, key |-> <<>>, size |-> 0,
           had_bucket |-> FALSE, pre_count |-> 0, pre_total |-> 0,
           had_object |-> FALSE, pre_size |-> 0, overlapped |-> FALSE]

DbAllIdle == \A t \in DbTasks : db_task[t].pc = "idle"

\* The records of one bucket, and what its counters ought to be.
DbObjectsOf(bucket) == { ok \in DOMAIN db_objects : db_objects[ok].bucket = bucket }

DbSizeOf == [ ok \in DOMAIN db_objects |-> db_objects[ok].size ]

DbLiveCount(bucket) == Cardinality(DbObjectsOf(bucket))

DbLiveSize(bucket) == SumOver(DbObjectsOf(bucket), DbSizeOf)

\* sled::Tree::insert / remove / contains_key / get on a partial function.
TreeInsert(tree, k, v) == [ x \in (DOMAIN tree) \cup {k} |-> IF x = k THEN v ELSE tree[x] ]

TreeRemove(tree, k) == [ x \in (DOMAIN tree) \ {k} |-> tree[x] ]

TreeContains(tree, k) == k \in DOMAIN tree

\* What a call finds when it starts (history only).
DbCallRecord(t, op, bucket, key, size) ==
    LET hb == TreeContains(db_buckets, bucket)
        ho == TreeContains(db_objects, ObjectKey(bucket, key))
    IN  [op |-> op, task |-> t, bucket |-> bucket, key |-> key, size |-> size,
         had_bucket |-> hb,
         pre_count |-> IF hb THEN db_buckets[bucket].object_count ELSE 0,
         pre_total |-> IF hb THEN db_buckets[bucket].total_size ELSE 0,
         had_object |-> ho,
         pre_size |-> IF ho THEN db_objects[ObjectKey(bucket, key)].size ELSE 0,
         overlapped |-> ~DbAllIdle]

\* History only: a put that found a record under its key (an overwrite), a call
\* started while another call on the same (bucket, key) was running, and a
\* create_bucket that ran together with another call.
DbHistAfter(t, op, bucket, key) ==
    [overwrote |-> \/ db_hist.overwrote
                   \/ op = "put_object" /\ TreeContains(db_objects, ObjectKey(bucket, key)),
     key_clash |-> \/ db_hist.key_clash
                   \/ /\ op \in {"put_object", "delete_object"}
                      /\ \E u \in DbTasks \ {t} :
                            /\ db_task[u].pc # "idle"
                            /\ db_task[u].op \in {"put_object", "delete_object"}
                            /\ db_task[u].bucket = bucket
                            /\ db_task[u].key = key,
     create_overlap |-> \/ db_hist.create_overlap
                        \/ /\ ~DbAllIdle
                           /\ \/ op = "create_bucket"
                              \/ \E u \in DbTasks \ {t} :
                                    db_task[u].pc # "idle" /\ db_task[u].op = "create_bucket"]

DbBegin(t, op, bucket, key, size) ==
    /\ db_task[t].pc = "idle"
    /\ db_calls < MaxDbCalls
    /\ db_calls' = db_calls + 1
    /\ db_call' = DbCallRecord(t, op, bucket, key, size)
    /\ db_hist' = DbHistAfter(t, op, bucket, key)
    /\ UNCHANGED <<api_vars, fn_vars>>

DbReturn(t, ret) ==
    db_task' = [db_task EXCEPT ![t] = [@ EXCEPT !.pc = "idle", !.ret = ret]]

DbGoto(t, pc) ==
    db_task' = [db_task EXCEPT ![t].pc = pc]

DbHistoryUnchanged == UNCHANGED <<db_call, db_hist, db_calls, api_vars, fn_vars>>

DbInit ==
    /\ db_buckets = << >>
    /\ db_objects = << >>
    /\ db_task = [ t \in DbTasks |-> DbIdle ]
    /\ db_call = NoCall
    /\ db_hist = [overwrote |-> FALSE, key_clash |-> FALSE, create_overlap |-> FALSE]
    /\ db_calls = 0

\* ---- ObjectDB::create_bucket

\* contains_key: Err("already exists") when the name has a record.
create_bucket(t, bucket_info) ==
    /\ DbBegin(t, "create_bucket", bucket_info.name, <<>>, 0)
    /\ db_task' = [db_task EXCEPT ![t] =
          [DbIdle EXCEPT !.op = "create_bucket", !.bucket = bucket_info.name,
                         !.info = bucket_info,
                         !.pc = IF TreeContains(db_buckets, bucket_info.name)
                                THEN "idle" ELSE "create_insert",
                         !.ret = IF TreeContains(db_buckets, bucket_info.name)
                                 THEN "err_already_exists" ELSE "none"]]
    /\ UNCHANGED <<db_buckets, db_objects>>

\* self.buckets.insert(key, value)
create_bucket_insert(t) ==
    /\ db_task[t].pc = "create_insert"
    /\ db_buckets' = TreeInsert(db_buckets, db_task[t].bucket, db_task[t].info)
    /\ DbReturn(t, "ok")
    /\ UNCHANGED db_objects
    /\ DbHistoryUnchanged

\* ---- ObjectDB::update_bucket, as called by put_object and delete_object
\* (the caller drops its result: let _ = self.update_bucket(..)).

\* contains_key: Err("does not exist") when the bucket has gone.
update_bucket_contains(t) ==
    /\ db_task[t].pc = "update_contains"
    /\ IF TreeContains(db_buckets, db_task[t].info.name)
       THEN DbGoto(t, "update_insert")
       ELSE DbReturn(t, IF db_task[t].op = "put_object" THEN "ok" ELSE "true")
    /\ UNCHANGED <<db_buckets, db_objects>>
    /\ DbHistoryUnchanged

\* self.buckets.insert(key, value)
update_bucket_insert(t) ==
    /\ db_task[t].pc = "update_insert"
    /\ db_buckets' = TreeInsert(db_buckets, db_task[t].info.name, db_task[t].info)
    /\ DbReturn(t, IF db_task[t].op = "put_object" THEN "ok" ELSE "true")
    /\ UNCHANGED db_objects
    /\ DbHistoryUnchanged

\* ---- ObjectDB::put_object

\* The counters a put writes back, from the bucket record it read.
PutObjectStatistics(bucket, object_info) ==
    [bucket EXCEPT !.object_count = @ + 1,
                   !.total_size = @ + object_info.size]

\* self.objects.insert(key, value)
put_object(t, object_info) ==
    /\ DbBegin(t, "put_object", object_info.bucket, object_info.key, object_info.size)
    /\ db_objects' = TreeInsert(db_objects,
                                ObjectKey(object_info.bucket, object_info.key), object_info)
    /\ db_task' = [db_task EXCEPT ![t] =
          [DbIdle EXCEPT !.op = "put_object", !.bucket = object_info.bucket,
                         !.key = object_info.key, !.size = object_info.size,
                         !.pc = "put_get_bucket"]]
    /\ UNCHANGED db_buckets

\* if let Ok(Some(mut bucket)) = self.get_bucket(..): read the record, bump the copy.
put_object_get_bucket(t) ==
    /\ db_task[t].pc = "put_get_bucket"
    /\ IF TreeContains(db_buckets, db_task[t].bucket)
       THEN db_task' = [db_task EXCEPT ![t] =
              [@ EXCEPT !.pc = "update_contains",
                        !.info = PutObjectStatistics(db_buckets[db_task[t].bucket],
                                     ObjectInfo(db_task[t].bucket, db_task[t].key,
                                                db_task[t].size))]]
       ELSE DbReturn(t, "ok")
    /\ UNCHANGED <<db_buckets, db_objects>>
    /\ DbHistoryUnchanged

\* ---- ObjectDB::delete_object

\* The counters a delete writes back, from the bucket record it read.
DeleteObjectStatistics(bucket_info, object_size) ==
    [bucket_info EXCEPT !.object_count = Max(0, @ - 1),
                        !.total_size = Max(0, @ - object_size)]

\* self.get_object(bucket, key): Ok(false) when there is no record.
delete_object(t, bucket, key) ==
    /\ DbBegin(t, "delete_object", bucket, key, 0)
    /\ IF TreeContains(db_objects, ObjectKey(bucket, key))
       THEN db_task' = [db_task EXCEPT ![t] =
              [DbIdle EXCEPT !.op = "delete_object", !.bucket = bucket, !.key = key,
                             !.size = db_objects[ObjectKey(bucket, key)].size,
                             !.pc = "delete_remove"]]
       ELSE db_task' = [db_task EXCEPT ![t] =
              [DbIdle EXCEPT !.op = "delete_object", !.bucket = bucket, !.key = key,
                             !.ret = "false"]]
    /\ UNCHANGED <<db_buckets, db_objects>>

\* self.objects.remove(key): Ok(false) when another task removed it meanwhile.
delete_object_remove(t) ==
    /\ db_task[t].pc = "delete_remove"
    /\ LET ok == ObjectKey(db_task[t].bucket, db_task[t].key)
       IN  IF TreeContains(db_objects, ok)
           THEN /\ db_objects' = TreeRemove(db_objects, ok)
                /\ DbGoto(t, "delete_get_bucket")
           ELSE /\ UNCHANGED db_objects
                /\ DbReturn(t, "false")
    /\ UNCHANGED db_buckets
    /\ DbHistoryUnchanged

\* if let Ok(Some(mut bucket_info)) = self.get_bucket(bucket)
delete_object_get_bucket(t) ==
    /\ db_task[t].pc = "delete_get_bucket"
    /\ IF TreeContains(db_buckets, db_task[t].bucket)
       THEN db_task' = [db_task EXCEPT ![t] =
              [@ EXCEPT !.pc = "update_contains",
                        !.info = DeleteObjectStatistics(db_buckets[db_task[t].bucket],
                                                        db_task[t].size)]]
       ELSE DbReturn(t, "true")
    /\ UNCHANGED <<db_buckets, db_objects>>
    /\ DbHistoryUnchanged

\* ---- the callers of ObjectDB

\* A caller creates buckets with BucketInfo::new and puts and deletes objects in
\* buckets that exist.
DbStart(t) ==
    \/ \E b \in DbBucketNames : create_bucket(t, BucketInfoNew(b))
    \/ \E b \in DOMAIN db_buckets, k \in DbKeys, s \in Sizes :
          put_object(t, ObjectInfo(b, k, s))
    \/ \E b \in DOMAIN db_buckets, k \in DbKeys : delete_object(t, b, k)

DbStep(t) ==
    \/ create_bucket_insert(t)
    \/ put_object_get_bucket(t)
    \/ delete_object_remove(t)
    \/ delete_object_get_bucket(t)
    \/ update_bucket_contains(t)
    \/ update_bucket_insert(t)

\* ------------------------------------------------------------------ paths

\* The position of the first "/" of a string, 0 when it has none.
FirstSlash(s) ==
    IF \E i \in 1..Len(s) : s[i] = "/"
    THEN CHOOSE i \in 1..Len(s) : s[i] = "/" /\ \A j \in 1..(i - 1) : s[j] # "/"
    ELSE 0

\* The components of a relative path string (empty components do not count).
RECURSIVE SplitPath(_)
SplitPath(s) ==
    IF s = << >> THEN << >>
    ELSE LET i == FirstSlash(s)
         IN  IF i = 0 THEN << s >>
             ELSE (IF i = 1 THEN << >> ELSE << SubSeq(s, 1, i - 1) >>)
                  \o SplitPath(SubSeq(s, i + 1, Len(s)))

\* PathBuf::join with a relative string.  A path is the sequence of its
\* components below the storage root; the root itself is << >>.
PathJoin(path, s) == path \o SplitPath(s)

\* Path::with_extension: the last component up to its final "." (a leading "."
\* does not start an extension), then "." and the new extension.
WithExtension(path, ext) ==
    IF path = << >> THEN path
    ELSE LET name == path[Len(path)]
             dots == { i \in 2..Len(name) : name[i] = "." }
             stem == IF dots = {} THEN name
                     ELSE SubSeq(name, 1, (CHOOSE i \in dots : \A j \in dots : j <= i) - 1)
         IN  [path EXCEPT ![Len(path)] = stem \o << "." >> \o ext]

Parent(path) == SubSeq(path, 1, Len(path) - 1)

root_path == << >>

bucket_path(bucket) == PathJoin(root_path, bucket)

object_path(bucket, key) == PathJoin(bucket_path(bucket), key)

metadata_path(bucket, key) == WithExtension(object_path(bucket, key), << "meta" >>)

\* ------------------------------------------------------------------ object keys

\* A run of 250 ordinary characters, as one token.
LongRun == "p250"

\* The number of bytes of a token: the separators and "NUL" are one byte each,
\* U+00E9 is two bytes in UTF-8.
TokenLen(tok) ==
    IF tok = LongRun THEN 250
    ELSE IF tok = "txt" THEN 3
    ELSE IF tok = "meta" THEN 4
    ELSE IF tok = "U+00E9" THEN 2
    ELSE 1

\* str::len
RECURSIVE StrLen(_)
StrLen(s) == IF s = << >> THEN 0 ELSE TokenLen(Head(s)) + StrLen(Tail(s))

\* validate_object_key with the upper limit one byte lower.
validate_object_key_short(key) ==
    IF StrLen(key) = 0 \/ StrLen(key) >= 1024 THEN "InvalidObjectKey"
    ELSE IF \E i \in 1..Len(key) : key[i] = "NUL" THEN "InvalidObjectKey"
    ELSE "Ok"

\* object_io_core::validate_object_key
validate_object_key(key) ==
    IF StrLen(key) = 0 \/ StrLen(key) > 1024 THEN "InvalidObjectKey"
    ELSE IF \E i \in 1..Len(key) : key[i] = "NUL" THEN "InvalidObjectKey"
    ELSE "Ok"

\* ------------------------------------------------------------------ the file system

\* A file name the operating system takes: no NUL byte, at most 255 bytes.
NameOk(name) == /\ \A i \in 1..Len(name) : name[i] # "NUL"
                /\ StrLen(name) <= 255

IsFile(path) == path \in DOMAIN fs_files

IsDir(path) == path = root_path \/ path \in fs_dirs

\* Path::exists
PathExists(path) == IsFile(path) \/ IsDir(path)

Prefixes(path) == { SubSeq(path, 1, i) : i \in 1..Len(path) }

\* fs::create_dir_all fails when a component of the path is a regular file.
CreateDirAllOk(path) == /\ \A d \in Prefixes(path) : ~IsFile(d)
                        /\ \A i \in 1..Len(path) : NameOk(path[i])

\* File::create / fs::write open with O_CREAT | O_TRUNC: fails on a directory and
\* under a parent that is no directory.
FileCreateOk(path) == /\ path # root_path
                      /\ ~IsDir(path)
                      /\ IsDir(Parent(path))
                      /\ NameOk(path[Len(path)])

\* fs::remove_file: unlink fails on a directory and on a missing path.
RemoveFileOk(path) == IsFile(path)

\* write(2) of chunk at byte offset off: a gap left by a concurrent truncation
\* reads as NUL bytes.
WriteAt(data, off, chunk) ==
    LET n == Max(Len(data), off + Len(chunk))
    IN  [ i \in 1..n |-> IF i > off /\ i <= off + Len(chunk) THEN chunk[i - off]
                         ELSE IF i <= Len(data) THEN data[i]
                         ELSE "NUL" ]

\* ------------------------------------------------------------------ sidecar metadata

MetadataNames == << "content-type", "owner" >>

\* The HashMap the put handler builds from the request headers: content-type first,
\* then every x-amz-meta-<name> header under <name>.
HeaderMetadata(headers) ==
    [ n \in { m \in {"content-type", "owner"} :
                \/ m = "content-type" /\ headers.content_type # ""
                \/ m = "owner" /\ headers.x_amz_meta_owner # "" }
        |-> IF n = "owner" THEN headers.x_amz_meta_owner ELSE headers.content_type ]

\* serde_json::to_string(&metadata): "{" name value ... "}"
RECURSIVE JsonEntries(_, _)
JsonEntries(metadata, names) ==
    IF names = << >> THEN << >>
    ELSE (IF Head(names) \in DOMAIN metadata
          THEN << Head(names), metadata[Head(names)] >> ELSE << >>)
         \o JsonEntries(metadata, Tail(names))

ToJson(metadata) == << "{" >> \o JsonEntries(metadata, MetadataNames) \o << "}" >>

\* serde_json::from_str::<HashMap<String, String>>: whether the text parses.
IsJsonMap(data) ==
    /\ Len(data) >= 2
    /\ data[1] = "{"
    /\ data[Len(data)] = "}"
    /\ (Len(data) - 2) % 2 = 0
    /\ \A i \in 2..(Len(data) - 1) : data[i] \notin {"{", "}", "NUL"}

\* metadata.get(name) on the parsed map: "" when the name is missing.
JsonGet(data, name) ==
    LET at == { i \in 1..((Len(data) - 2) \div 2) : data[2 * i] = name }
    IN  IF at = {} THEN ""
        ELSE data[2 * (CHOOSE i \in at : \A j \in at : j <= i) + 1]

\* The parsed map without one name (what head_object turns into x-amz-meta-*).
JsonWithout(data, name) ==
    LET keep == { i \in 1..((Len(data) - 2) \div 2) : data[2 * i] # name }
    IN  { << data[2 * i], data[2 * i + 1] >> : i \in keep }

\* FilesystemStorage::get_object_metadata, then the handler's Err(_) => HashMap::new():
\* the JSON text of the map the handler works with.
EmptyJson == << "{", "}" >>

get_object_metadata(bucket, key) ==
    LET mp == metadata_path(bucket, key)
    IN  IF ~PathExists(mp) THEN EmptyJson
        ELSE IF IsDir(mp) THEN EmptyJson
        ELSE IF IsJsonMap(fs_files[mp]) THEN fs_files[mp]
        ELSE EmptyJson

\* FilesystemStorage::object_exists
object_exists(bucket, key) == PathExists(object_path(bucket, key))

\* Path::extension of a file name: what follows its last "." (not a leading one).
Extension(name) ==
    LET dots == { i \in 2..Len(name) : name[i] = "." }
    IN  IF dots = {} THEN << >>
        ELSE SubSeq(name, (CHOOSE i \in dots : \A j \in dots : j <= i) + 1, Len(name))

\* FilesystemStorage::list_objects without prefix and limit: the names of the
\* regular files directly in the bucket directory, the *.meta files left out.
list_objects(bucket) ==
    IF ~PathExists(bucket_path(bucket)) THEN {}
    ELSE { path[Len(path)] : path \in
             { f \in DOMAIN fs_files : /\ f # << >>
                                       /\ Parent(f) = bucket_path(bucket)
                                       /\ Extension(f[Len(f)]) # << "meta" >> } }

\* Sha256::finalize: the bytes of the digest, each a symbol of what was digested.
DigestBytes == 32

Sha256Finalize(content) == [ i \in 1..DigestBytes |-> [sha256 |-> content, byte |-> i] ]

\* format!("{:x}", result) with one digit for each byte.
LowerHexShort(bytes) ==
    [ j \in 1..Len(bytes) |-> [of |-> bytes[j], digit |-> "low"] ]

\* format!("{:x}", result): the two lowercase hexadecimal digits of each byte.
LowerHex(bytes) ==
    [ j \in 1..(2 * Len(bytes)) |->
        [of |-> bytes[(j + 1) \div 2], digit |-> IF j % 2 = 1 THEN "high" ELSE "low"] ]

\* object_io_core::utils::generate_etag
generate_etag(content) == LowerHex(Sha256Finalize(content))

\* ------------------------------------------------------------------ the request tasks

ApiTasks == 1..NumApiTasks

NoHeaders == [content_type |-> "", x_amz_meta_owner |-> ""]

ApiIdle == [pc |-> "idle", op |-> "none", bucket |-> << >>, key |-> << >>,
            headers |-> NoHeaders, body |-> << >>, buffer |-> << >>, written |-> 0,
            status |-> 0, resp_body |-> << >>, resp_type |-> "", resp_meta |-> {},
            etag |-> << >>, storage |-> "none"]

\* History only: the DeleteObject request a task answered last (none when its last
\* request was another one), and what a request found when it started.
NoLast == [op |-> "none", bucket |-> << >>, key |-> << >>, status |-> 0, storage |-> "none"]

LastOf(task) ==
    IF task.op = "delete_object"
    THEN [op |-> task.op, bucket |-> task.bucket, key |-> task.key,
          status |-> task.status, storage |-> task.storage]
    ELSE NoLast

NoApiCall == [had_bucket |-> FALSE, was_live |-> FALSE, path_existed |-> FALSE,
              files |-> << >>, dirs |-> {}, buckets |-> {}, allowed |-> {},
              last |-> NoLast]

ApiAllIdle == \A t \in ApiTasks : api_task[t].pc = "idle"

ApiRunning(t) == api_task[t].pc \notin {"idle", "done"}

\* History only: the answers a GetObject may give, as <<status, body>>: the content
\* of the last completed put (404 when there is none) or the complete content of a
\* put in progress.
AllowedAnswers(bucket, key) ==
    { IF << bucket, key >> \in DOMAIN api_commit
      THEN << 200, api_commit[<< bucket, key >>] >> ELSE << 404, << >> >> }
    \cup { << 200, api_task[u].body >> :
             u \in { v \in ApiTasks : /\ ApiRunning(v)
                                      /\ api_task[v].op = "put_object"
                                      /\ api_task[v].bucket = bucket
                                      /\ api_task[v].key = key } }

\* History only: the requests whose record keeps a copy of the storage they found
\* (a PutObject that will reach the storage only when it starts while no other
\* request is running).
KeepsStorage(op, bucket, key) ==
    \/ op = "delete_object"
    \/ op = "put_object" /\ validate_object_key(key) # "Ok"
    \/ op = "put_object" /\ bucket \notin md_buckets
    \/ op = "put_object" /\ ApiAllIdle

\* History only, at the start of a request: what it found, and for the GetObject
\* requests running on the same key the new answer a starting PutObject allows.
ApiBegin(t, op, bucket, key, body) ==
    /\ api_task[t].pc = "idle"
    /\ api_call' = [ u \in ApiTasks |->
         IF u = t
         THEN [had_bucket |-> bucket \in md_buckets,
               was_live |-> << bucket, key >> \in DOMAIN api_commit,
               path_existed |-> PathExists(object_path(bucket, key)),
               files |-> IF KeepsStorage(op, bucket, key) THEN fs_files ELSE << >>,
               dirs |-> IF KeepsStorage(op, bucket, key) THEN fs_dirs ELSE {},
               buckets |-> IF op \in {"delete_bucket", "create_bucket"} THEN md_buckets ELSE {},
               allowed |-> IF op = "get_object" THEN AllowedAnswers(bucket, key) ELSE {},
               last |-> api_call[t].last]
         ELSE IF /\ op = "put_object" /\ bucket \in md_buckets
                 /\ ApiRunning(u) /\ api_task[u].op = "get_object"
                 /\ api_task[u].bucket = bucket /\ api_task[u].key = key
         THEN [api_call[u] EXCEPT !.allowed = @ \cup { << 200, body >> }]
         ELSE api_call[u] ]
    /\ UNCHANGED <<db_vars, fn_vars>>

\* History only: the committed contents after a request was answered.
CommitAfter(task) ==
    IF task.op = "put_object" /\ task.status = 200
    THEN [ x \in (DOMAIN api_commit) \cup { << task.bucket, task.key >> } |->
             IF x = << task.bucket, task.key >> THEN task.body ELSE api_commit[x] ]
    ELSE IF task.op = "delete_object" /\ task.status = 204
    THEN [ x \in (DOMAIN api_commit) \ { << task.bucket, task.key >> } |-> api_commit[x] ]
    ELSE IF task.op = "delete_bucket" /\ task.status = 204
    THEN [ x \in { y \in DOMAIN api_commit : y[1] # task.bucket } |-> api_commit[x] ]
    ELSE api_commit

\* History only: the keys a bucket held when a DeleteBucket on it succeeded, until
\* a PutObject is accepted for that bucket name again.
FormerAfter(task) ==
    IF task.op = "delete_bucket" /\ task.status = 204
    THEN api_former \cup { x \in DOMAIN api_commit : x[1] = task.bucket }
    ELSE api_former

\* The handler returns: the response is what the task record then holds.
Respond(t, task) ==
    /\ api_task' = [api_task EXCEPT ![t] = [task EXCEPT !.pc = "done"]]
    /\ api_commit' = CommitAfter(task)
    /\ api_former' = FormerAfter(task)

Goto(t, task) ==
    /\ api_task' = [api_task EXCEPT ![t] = task]
    /\ UNCHANGED api_commit
    /\ api_former' = IF task.op = "put_object" /\ task.pc = "put_create_dir"
                     THEN { x \in api_former : x[1] # task.bucket }
                     ELSE api_former

Request(op, bucket, key) == [ApiIdle EXCEPT !.op = op, !.bucket = bucket, !.key = key]

\* The response has gone out; the task is free for the next request.
finish(t) ==
    /\ api_task[t].pc = "done"
    /\ api_task' = [api_task EXCEPT ![t] = ApiIdle]
    /\ api_call' = [api_call EXCEPT ![t] = [NoApiCall EXCEPT !.last = LastOf(api_task[t])]]
    /\ UNCHANGED <<md_buckets, md_objects, fs_files, fs_dirs, api_commit, api_former, db_vars, fn_vars>>

ApiInit ==
    /\ md_buckets = {}
    /\ md_objects = {}
    /\ fs_files = << >>
    /\ fs_dirs = {}
    /\ api_task = [ t \in ApiTasks |-> ApiIdle ]
    /\ api_call = [ t \in ApiTasks |-> NoApiCall ]
    /\ api_commit = << >>
    /\ api_former = {}

\* No function is called on its own.
\* No call of list_objects is under way.
NoList == [called |-> FALSE, bucket |-> << >>, prefix |-> {}, max_keys |-> {}]

ListInit == ls_arg = NoList /\ ls_res = << >>

\* The clock at its start, and no call made yet.
NoFirst == [called |-> FALSE, arg |-> << >>, res |-> << >>]

ClockInit == clock = 0 /\ fn_first = NoFirst

\* Table user is empty after init_schema; nothing was printed or listed.
NoMetaCall == [op |-> "none", bucket |-> << >>, key |-> << >>, size |-> 0,
               etag |-> << >>, existed |-> FALSE, created |-> 0, res |-> "none"]

NoPages == [max_keys |-> 0, pages |-> << >>, res |-> "none"]

MetaInit == md_res = NoMetaCall /\ md_pages = NoPages

UserInit == md_users = {} /\ console = {} /\ us_res = {} /\ MetaInit

FnInit == fn_arg = << >> /\ fn_res = "none" /\ ListInit /\ ClockInit /\ UserInit

Init == DbInit /\ ApiInit /\ FnInit

\* ------------------------------------------------------------------ bucket handlers

LowerCase == { "a", "b", "c", "d", "e", "f", "g", "h", "i", "j", "k", "l", "m",
               "n", "o", "p", "q", "r", "s", "t", "u", "v", "w", "x", "y", "z" }

Digits == { "0", "1", "2", "3", "4", "5", "6", "7", "8", "9" }

\* object_io_core::validate_bucket_name, on a name given character by character.
validate_bucket_name(name) ==
    IF Len(name) = 0 \/ Len(name) > 63 THEN "InvalidBucketName"
    ELSE IF ~(\A i \in 1..Len(name) : name[i] \in LowerCase \cup Digits \cup {"-", "."})
    THEN "InvalidBucketName"
    ELSE IF name[1] \in {"-", "."} \/ name[Len(name)] \in {"-", "."}
    THEN "InvalidBucketName"
    ELSE "Ok"

\* MetadataOperations::get_bucket: SELECT * FROM bucket WHERE name = $name
metadata_get_bucket(name) == name \in md_buckets

\* Whether a message contains the words the handler looks for.
Mentions(message, words) ==
    \E i \in 0..(Len(message) - Len(words)) :
        SubSeq(message, i + 1, i + Len(words)) = words

\* MetadataOperations::create_bucket: CREATE bucket; the UNIQUE index bucket_name
\* refuses a second row of the same name, and the store's message comes back
\* inside DatabaseError.
IndexErrorMessage == << "Failed", "to", "create", "bucket", "Database", "index",
                        "bucket_name", "already", "contains" >>

\* create_bucket handler (PUT /{bucket})
bucket_create_bucket(t, bucket_name) ==
    /\ ApiBegin(t, "create_bucket", bucket_name, << >>, << >>)
    /\ IF validate_bucket_name(bucket_name) # "Ok"
       THEN /\ Respond(t, [Request("create_bucket", bucket_name, << >>) EXCEPT !.status = 400])
            /\ UNCHANGED md_buckets
       ELSE IF bucket_name \in md_buckets
       THEN /\ Respond(t, [Request("create_bucket", bucket_name, << >>) EXCEPT
                             !.status = IF Mentions(IndexErrorMessage, << "already", "exists" >>)
                                        THEN 409 ELSE 500])
            /\ UNCHANGED md_buckets
       ELSE /\ Respond(t, [Request("create_bucket", bucket_name, << >>) EXCEPT !.status = 200])
            /\ md_buckets' = md_buckets \cup { bucket_name }
    /\ UNCHANGED <<md_objects, fs_files, fs_dirs>>

\* MetadataOperations::delete_bucket: DELETE FROM bucket WHERE name = $name, which
\* succeeds whether or not a row matched.
metadata_delete_bucket(name) == md_buckets \ { name }

\* delete_bucket handler (DELETE /{bucket})
bucket_delete_bucket(t, bucket_name) ==
    /\ ApiBegin(t, "delete_bucket", bucket_name, << >>, << >>)
    /\ md_buckets' = metadata_delete_bucket(bucket_name)
    /\ Respond(t, [Request("delete_bucket", bucket_name, << >>) EXCEPT !.status = 204])
    /\ UNCHANGED <<md_objects, fs_files, fs_dirs>>

\* head_bucket handler (HEAD /{bucket})
bucket_head_bucket(t, bucket_name) ==
    /\ ApiBegin(t, "head_bucket", bucket_name, << >>, << >>)
    /\ Respond(t, [Request("head_bucket", bucket_name, << >>) EXCEPT
                     !.status = IF metadata_get_bucket(bucket_name) THEN 200 ELSE 404])
    /\ UNCHANGED <<md_buckets, md_objects, fs_files, fs_dirs>>

\* ------------------------------------------------------------------ PutObject

\* A put_object handler that does not look for the bucket.
object_put_object_unchecked(t, bucket, key, headers, body) ==
    /\ ApiBegin(t, "put_object", bucket, key, body)
    /\ Goto(t, [Request("put_object", bucket, key) EXCEPT
                  !.headers = headers, !.body = body, !.pc = "put_create_dir"])
    /\ UNCHANGED <<md_buckets, md_objects, fs_files, fs_dirs>>

\* put_object handler (PUT /{bucket}/{key}): the bucket check and the metadata map.
object_put_object(t, bucket, key, headers, body) ==
    /\ ApiBegin(t, "put_object", bucket, key, body)
    /\ LET req == [Request("put_object", bucket, key) EXCEPT
                     !.headers = headers, !.body = body]
       IN  IF metadata_get_bucket(bucket)
           THEN Goto(t, [req EXCEPT !.pc = "put_create_dir"])
           ELSE Respond(t, [req EXCEPT !.status = 404])
    /\ UNCHANGED <<md_buckets, md_objects, fs_files, fs_dirs>>

\* FilesystemStorage::put_object: fs::create_dir_all(parent)
storage_put_object_create_dir(t) ==
    /\ api_task[t].pc = "put_create_dir"
    /\ LET parent == Parent(object_path(api_task[t].bucket, api_task[t].key))
       IN  IF CreateDirAllOk(parent)
           THEN /\ fs_dirs' = fs_dirs \cup Prefixes(parent)
                /\ Goto(t, [api_task[t] EXCEPT !.pc = "put_create_file"])
           ELSE /\ UNCHANGED fs_dirs
                /\ Respond(t, [api_task[t] EXCEPT !.status = 500, !.storage = "StorageError"])
    /\ UNCHANGED <<md_buckets, md_objects, fs_files, api_call, db_vars, fn_vars>>

\* FilesystemStorage::put_object: fs::File::create(&object_path) truncates the file.
storage_put_object_create_file(t) ==
    /\ api_task[t].pc = "put_create_file"
    /\ LET path == object_path(api_task[t].bucket, api_task[t].key)
       IN  IF FileCreateOk(path)
           THEN /\ fs_files' = TreeInsert(fs_files, path, << >>)
                /\ Goto(t, [api_task[t] EXCEPT !.pc = "put_read"])
           ELSE /\ UNCHANGED fs_files
                /\ Respond(t, [api_task[t] EXCEPT !.status = 500, !.storage = "StorageError"])
    /\ UNCHANGED <<md_buckets, md_objects, fs_dirs, api_call, db_vars, fn_vars>>

\* FilesystemStorage::put_object: data.read_to_end(&mut buffer) takes the whole body.
storage_put_object_read(t) ==
    /\ api_task[t].pc = "put_read"
    /\ Goto(t, [api_task[t] EXCEPT !.pc = "put_write", !.buffer = api_task[t].body])
    /\ UNCHANGED <<md_buckets, md_objects, fs_files, fs_dirs, api_call, db_vars, fn_vars>>

\* ... or the body stream breaks: Err(StorageError), answered 500.
storage_put_object_read_fails(t) ==
    /\ api_task[t].pc = "put_read"
    /\ Respond(t, [api_task[t] EXCEPT !.status = 500, !.storage = "StorageError"])
    /\ UNCHANGED <<md_buckets, md_objects, fs_files, fs_dirs, api_call, db_vars, fn_vars>>

\* FilesystemStorage::put_object: file.write_all(&buffer), one write per chunk at
\* the handle's own offset; then the ETag of the buffer.  The handle stands for the
\* file at its path.
storage_put_object_write(t) ==
    /\ api_task[t].pc = "put_write"
    /\ LET path == object_path(api_task[t].bucket, api_task[t].key)
           n == api_task[t].written
       IN  IF n < Len(api_task[t].buffer)
           THEN /\ fs_files' = IF IsFile(path)
                               THEN [fs_files EXCEPT ![path] =
                                       WriteAt(@, n, << api_task[t].buffer[n + 1] >>)]
                               ELSE fs_files
                /\ Goto(t, [api_task[t] EXCEPT !.written = n + 1])
           ELSE /\ UNCHANGED fs_files
                /\ Goto(t, [api_task[t] EXCEPT !.pc = "put_metadata_create",
                                               !.etag = generate_etag(api_task[t].buffer)])
    /\ UNCHANGED <<md_buckets, md_objects, fs_dirs, api_call, db_vars, fn_vars>>

\* FilesystemStorage::put_object: fs::write(&metadata_path, ..) opens and truncates
\* the sidecar file ...
storage_put_object_metadata_create(t) ==
    /\ api_task[t].pc = "put_metadata_create"
    /\ LET path == metadata_path(api_task[t].bucket, api_task[t].key)
       IN  IF FileCreateOk(path)
           THEN /\ fs_files' = TreeInsert(fs_files, path, << >>)
                /\ Goto(t, [api_task[t] EXCEPT !.pc = "put_metadata_write"])
           ELSE /\ UNCHANGED fs_files
                /\ Respond(t, [api_task[t] EXCEPT !.status = 500, !.storage = "StorageError"])
    /\ UNCHANGED <<md_buckets, md_objects, fs_dirs, api_call, db_vars, fn_vars>>

\* ... and writes the JSON text; the handler answers 200 with the ETag.
storage_put_object_metadata_write(t) ==
    /\ api_task[t].pc = "put_metadata_write"
    /\ LET path == metadata_path(api_task[t].bucket, api_task[t].key)
       IN  fs_files' = IF IsFile(path)
                       THEN [fs_files EXCEPT ![path] =
                               WriteAt(@, 0, ToJson(HeaderMetadata(api_task[t].headers)))]
                       ELSE fs_files
    /\ Respond(t, [api_task[t] EXCEPT !.status = 200, !.storage = "Ok"])
    /\ UNCHANGED <<md_buckets, md_objects, fs_dirs, api_call, db_vars, fn_vars>>

\* The client goes away (or the timeout layer fires): the handler's future is
\* dropped where it stands and nothing is undone.
cancel(t) ==
    /\ api_task[t].op = "put_object"
    /\ ApiRunning(t)
    /\ api_task' = [api_task EXCEPT ![t] = ApiIdle]
    /\ api_call' = [api_call EXCEPT ![t] = [NoApiCall EXCEPT !.last = LastOf(api_task[t])]]
    /\ UNCHANGED <<md_buckets, md_objects, fs_files, fs_dirs, api_commit, api_former, db_vars, fn_vars>>

\* ------------------------------------------------------------------ GetObject, HeadObject

\* The content-type header of a GetObject / HeadObject answer.
ContentTypeOf(json) ==
    IF JsonGet(json, "content-type") # "" THEN JsonGet(json, "content-type")
    ELSE "application/octet-stream"

\* get_object handler (GET /{bucket}/{key}): the bucket check.
object_get_object(t, bucket, key) ==
    /\ ApiBegin(t, "get_object", bucket, key, << >>)
    /\ IF metadata_get_bucket(bucket)
       THEN Goto(t, [Request("get_object", bucket, key) EXCEPT !.pc = "get_open"])
       ELSE Respond(t, [Request("get_object", bucket, key) EXCEPT !.status = 404])
    /\ UNCHANGED <<md_buckets, md_objects, fs_files, fs_dirs>>

\* FilesystemStorage::get_object: the exists test and File::open (which also opens
\* a directory).
storage_get_object(t) ==
    /\ api_task[t].pc = "get_open"
    /\ IF PathExists(object_path(api_task[t].bucket, api_task[t].key))
       THEN Goto(t, [api_task[t] EXCEPT !.pc = "get_metadata", !.storage = "Ok"])
       ELSE Respond(t, [api_task[t] EXCEPT !.status = 404, !.storage = "ObjectNotFound"])
    /\ UNCHANGED <<md_buckets, md_objects, fs_files, fs_dirs, api_call, db_vars, fn_vars>>

\* get_object handler: the sidecar map and the content-type header.
object_get_object_metadata(t) ==
    /\ api_task[t].pc = "get_metadata"
    /\ Goto(t, [api_task[t] EXCEPT
                  !.pc = "get_read",
                  !.resp_type = ContentTypeOf(get_object_metadata(api_task[t].bucket,
                                                                  api_task[t].key))])
    /\ UNCHANGED <<md_buckets, md_objects, fs_files, fs_dirs, api_call, db_vars, fn_vars>>

\* get_object handler: reader.read_to_end(&mut buffer) and the 200 answer; reading
\* a directory fails and is answered 500.
object_get_object_read(t) ==
    /\ api_task[t].pc = "get_read"
    /\ LET path == object_path(api_task[t].bucket, api_task[t].key)
       IN  IF IsFile(path)
           THEN Respond(t, [api_task[t] EXCEPT !.status = 200, !.resp_body = fs_files[path]])
           ELSE Respond(t, [api_task[t] EXCEPT !.status = 500, !.resp_type = ""])
    /\ UNCHANGED <<md_buckets, md_objects, fs_files, fs_dirs, api_call, db_vars, fn_vars>>

\* head_object handler (HEAD /{bucket}/{key})
object_head_object(t, bucket, key) ==
    /\ ApiBegin(t, "head_object", bucket, key, << >>)
    /\ LET req == Request("head_object", bucket, key)
           json == get_object_metadata(bucket, key)
       IN  IF ~metadata_get_bucket(bucket)
           THEN Respond(t, [req EXCEPT !.status = 404])
           ELSE IF ~object_exists(bucket, key)
           THEN Respond(t, [req EXCEPT !.status = 404, !.storage = "Ok"])
           ELSE Respond(t, [req EXCEPT !.status = 200, !.storage = "Ok",
                                       !.resp_type = ContentTypeOf(json),
                                       !.resp_meta = JsonWithout(json, "content-type")])
    /\ UNCHANGED <<md_buckets, md_objects, fs_files, fs_dirs>>

\* ------------------------------------------------------------------ DeleteObject

\* The handler's answer to the result of storage.delete_object.
DeleteObjectStatus(result) ==
    IF result = "Ok" THEN 204
    ELSE IF result = "ObjectNotFound" THEN 204
    ELSE 500

\* delete_object handler (DELETE /{bucket}/{key}): the bucket check.
object_delete_object(t, bucket, key) ==
    /\ ApiBegin(t, "delete_object", bucket, key, << >>)
    /\ IF metadata_get_bucket(bucket)
       THEN Goto(t, [Request("delete_object", bucket, key) EXCEPT !.pc = "delete_exists"])
       ELSE Respond(t, [Request("delete_object", bucket, key) EXCEPT !.status = 404])
    /\ UNCHANGED <<md_buckets, md_objects, fs_files, fs_dirs>>

\* A delete_object that takes a missing path for done.
storage_delete_object_absent_ok(t) ==
    /\ api_task[t].pc = "delete_exists"
    /\ IF PathExists(object_path(api_task[t].bucket, api_task[t].key))
       THEN Goto(t, [api_task[t] EXCEPT !.pc = "delete_remove"])
       ELSE Respond(t, [api_task[t] EXCEPT !.storage = "Ok",
                                           !.status = DeleteObjectStatus("Ok")])
    /\ UNCHANGED <<md_buckets, md_objects, fs_files, fs_dirs, api_call, db_vars, fn_vars>>

\* FilesystemStorage::delete_object: if !object_path.exists() return Err(ObjectNotFound)
storage_delete_object(t) ==
    /\ api_task[t].pc = "delete_exists"
    /\ IF PathExists(object_path(api_task[t].bucket, api_task[t].key))
       THEN Goto(t, [api_task[t] EXCEPT !.pc = "delete_remove"])
       ELSE Respond(t, [api_task[t] EXCEPT !.storage = "ObjectNotFound",
                                           !.status = DeleteObjectStatus("ObjectNotFound")])
    /\ UNCHANGED <<md_buckets, md_objects, fs_files, fs_dirs, api_call, db_vars, fn_vars>>

\* FilesystemStorage::delete_object: fs::remove_file(&object_path)
storage_delete_object_remove(t) ==
    /\ api_task[t].pc = "delete_remove"
    /\ LET path == object_path(api_task[t].bucket, api_task[t].key)
       IN  IF RemoveFileOk(path)
           THEN /\ fs_files' = TreeRemove(fs_files, path)
                /\ Goto(t, [api_task[t] EXCEPT !.pc = "delete_metadata"])
           ELSE /\ UNCHANGED fs_files
                /\ Respond(t, [api_task[t] EXCEPT !.storage = "StorageError",
                                                  !.status = DeleteObjectStatus("StorageError")])
    /\ UNCHANGED <<md_buckets, md_objects, fs_dirs, api_call, db_vars, fn_vars>>

\* FilesystemStorage::delete_object: the sidecar, if metadata_path.exists()
storage_delete_object_metadata(t) ==
    /\ api_task[t].pc = "delete_metadata"
    /\ LET path == metadata_path(api_task[t].bucket, api_task[t].key)
       IN  IF ~PathExists(path)
           THEN /\ UNCHANGED fs_files
                /\ Respond(t, [api_task[t] EXCEPT !.storage = "Ok",
                                                  !.status = DeleteObjectStatus("Ok")])
           ELSE IF RemoveFileOk(path)
           THEN /\ fs_files' = TreeRemove(fs_files, path)
                /\ Respond(t, [api_task[t] EXCEPT !.storage = "Ok",
                                                  !.status = DeleteObjectStatus("Ok")])
           ELSE /\ UNCHANGED fs_files
                /\ Respond(t, [api_task[t] EXCEPT !.storage = "StorageError",
                                                  !.status = DeleteObjectStatus("StorageError")])
    /\ UNCHANGED <<md_buckets, md_objects, fs_dirs, api_call, db_vars, fn_vars>>

\* ------------------------------------------------------------------ the HTTP interface

\* Objects are addressed in one bucket name; "B" is a name create_bucket refuses.
TheBucket == << "b", "k", "t" >>

ApiBucketNames == { TheBucket, << "B" >> }

ApiKeys == { << "a" >>, << "a", ".", "txt" >>, << "a", ".", "meta" >>, << "a", "/", "b" >> }

Bodies == { << "x", "y" >>, << "z" >> }

HeaderSets == { [content_type |-> "text/plain", x_amz_meta_owner |-> "me"],
                [content_type |-> "", x_amz_meta_owner |-> "you"] }

\* A request arrives.
ApiStart(t) ==
    \/ \E b \in ApiBucketNames : bucket_create_bucket(t, b)
    \/ \E b \in ApiBucketNames : bucket_delete_bucket(t, b)
    \/ \E b \in ApiBucketNames : bucket_head_bucket(t, b)
    \/ \E b \in {TheBucket}, k \in ApiKeys, h \in HeaderSets, d \in Bodies :
          object_put_object(t, b, k, h, d)
    \/ \E b \in {TheBucket}, k \in ApiKeys : object_get_object(t, b, k)
    \/ \E b \in {TheBucket}, k \in ApiKeys : object_head_object(t, b, k)
    \/ \E b \in {TheBucket}, k \in ApiKeys : object_delete_object(t, b, k)

\* A running handler takes its next step.
ApiStep(t) ==
    \/ storage_put_object_create_dir(t)
    \/ storage_put_object_create_file(t)
    \/ storage_put_object_read(t)
    \/ storage_put_object_read_fails(t)
    \/ storage_put_object_write(t)
    \/ storage_put_object_metadata_create(t)
    \/ storage_put_object_metadata_write(t)
    \/ storage_get_object(t)
    \/ object_get_object_metadata(t)
    \/ object_get_object_read(t)
    \/ storage_delete_object(t)
    \/ storage_delete_object_remove(t)
    \/ storage_delete_object_metadata(t)
    \/ finish(t)

\* Requests one at a time, each running to its answer.
ApiSerialNext == \E t \in {1} : ApiStart(t) \/ ApiStep(t)

SpecApiSerial == Init /\ [][ApiSerialNext]_vars

\* Requests one at a time with keys that validate_object_key refuses: one holding
\* a NUL byte (PUT /bkt/a%00) and one of 1254 bytes in five components.
NulKey == << "a", "NUL" >>

LongKey == << LongRun, "/", LongRun, "/", LongRun, "/", LongRun, "/", LongRun >>

KeyInputs == { << "a" >>, NulKey, LongKey }

ApiKeysStart(t) ==
    \/ bucket_create_bucket(t, TheBucket)
    \/ bucket_delete_bucket(t, TheBucket)
    \/ \E k \in KeyInputs, h \in HeaderSets, d \in Bodies :
          object_put_object(t, TheBucket, k, h, d)
    \/ \E k \in KeyInputs : object_get_object(t, TheBucket, k)
    \/ \E k \in KeyInputs : object_head_object(t, TheBucket, k)

ApiKeysStep(t) ==
    \/ storage_put_object_create_dir(t)
    \/ storage_put_object_create_file(t)
    \/ storage_put_object_read(t)
    \/ storage_put_object_write(t)
    \/ storage_put_object_metadata_create(t)
    \/ storage_put_object_metadata_write(t)
    \/ storage_get_object(t)
    \/ object_get_object_metadata(t)
    \/ object_get_object_read(t)
    \/ finish(t)

ApiKeysNext == \E t \in {1} : ApiKeysStart(t) \/ ApiKeysStep(t)

SpecApiKeys == Init /\ [][ApiKeysNext]_vars

\* ------------------------------------------------------------------ list_objects

\* The entries of a directory: the files and directories directly in it.
DirEntries(dir) ==
    { path \in (DOMAIN fs_files) \cup fs_dirs : path # << >> /\ Parent(path) = dir }

\* The orders in which read_dir may hand out a set of entries.
ReadDirOrders(entries) ==
    { order \in [1..Cardinality(entries) -> entries] :
        \A i, j \in 1..Cardinality(entries) : i # j => order[i] # order[j] }

\* The loop of FilesystemStorage::list_objects over the entries still to come.  An
\* Option is a set with at most one member.  The limit is looked at after an object
\* was pushed.
RECURSIVE ListObjectsLoop(_, _, _, _)
ListObjectsLoop(entries, prefix, max_keys, objects) ==
    IF entries = << >> THEN objects
    ELSE LET path == Head(entries)
             file_name == path[Len(path)]
             pushed == Append(objects, file_name)
         IN  IF Extension(file_name) = << "meta" >>
             THEN ListObjectsLoop(Tail(entries), prefix, max_keys, objects)
             ELSE IF ~IsFile(path)
             THEN ListObjectsLoop(Tail(entries), prefix, max_keys, objects)
             ELSE IF \E p \in prefix : ~IsPrefix(p, file_name)
             THEN ListObjectsLoop(Tail(entries), prefix, max_keys, objects)
             ELSE IF \E max \in max_keys : Len(pushed) >= max
             THEN pushed
             ELSE ListObjectsLoop(Tail(entries), prefix, max_keys, pushed)

\* FilesystemStorage::list_objects(bucket, prefix, _delimiter, max_keys), called on
\* the storage backend between two requests.
storage_list_objects(bucket, prefix, max_keys) ==
    /\ ApiAllIdle
    /\ ~ls_arg.called
    /\ ls_arg' = [called |-> TRUE, bucket |-> bucket, prefix |-> prefix,
                  max_keys |-> max_keys]
    /\ IF ~PathExists(bucket_path(bucket))
       THEN ls_res' = << >>
       ELSE \E order \in ReadDirOrders(DirEntries(bucket_path(bucket))) :
               ls_res' = ListObjectsLoop(order, prefix, max_keys, << >>)
    /\ UNCHANGED <<store_vars, fn_arg, fn_res, clock, fn_first>>

\* The caller drops the listing.
list_objects_return ==
    /\ ls_arg.called
    /\ ls_arg' = NoList
    /\ ls_res' = << >>
    /\ UNCHANGED <<store_vars, fn_arg, fn_res, clock, fn_first>>

\* Puts and deletes one at a time, and listings between them.
ListKeys == ApiKeys

ListPrefixes == { {}, { << "a", "." >> }, { << "a", "/" >> } }

MaxKeysInputs == { {}, {0}, {1} }

ListHeaders == [content_type |-> "text/plain", x_amz_meta_owner |-> "me"]

ListStart(t) ==
    \/ ~ls_arg.called /\ bucket_create_bucket(t, TheBucket)
    \/ \E k \in ListKeys :
          ~ls_arg.called /\ object_put_object(t, TheBucket, k, ListHeaders, << "z" >>)
    \/ \E k \in ListKeys : ~ls_arg.called /\ object_delete_object(t, TheBucket, k)
    \/ \E p \in ListPrefixes, m \in MaxKeysInputs : storage_list_objects(TheBucket, p, m)
    \/ list_objects_return

ListStep(t) ==
    \/ storage_put_object_create_dir(t)
    \/ storage_put_object_create_file(t)
    \/ storage_put_object_read(t)
    \/ storage_put_object_write(t)
    \/ storage_put_object_metadata_create(t)
    \/ storage_put_object_metadata_write(t)
    \/ storage_delete_object(t)
    \/ storage_delete_object_remove(t)
    \/ storage_delete_object_metadata(t)
    \/ finish(t)

ListNext == \E t \in {1} : ListStart(t) \/ ListStep(t)

SpecList == Init /\ [][ListNext]_vars

\* Requests as independently scheduled tasks: PutObject and GetObject on one key
\* of one bucket, a put possibly cut short.
ConcurrentKey == << "a" >>

ConcurrentPuts == { << [content_type |-> "text/plain", x_amz_meta_owner |-> "me"], << "x", "y" >> >>,
                    << [content_type |-> "", x_amz_meta_owner |-> "you"], << "z" >> >> }

ApiConcurrentStart(t) ==
    \/ bucket_create_bucket(t, TheBucket)
    \/ \E r \in ConcurrentPuts : object_put_object(t, TheBucket, ConcurrentKey, r[1], r[2])
    \/ object_get_object(t, TheBucket, ConcurrentKey)

ApiConcurrentStep(t) ==
    \/ storage_put_object_create_dir(t)
    \/ storage_put_object_create_file(t)
    \/ storage_put_object_read(t)
    \/ storage_put_object_read_fails(t)
    \/ storage_put_object_write(t)
    \/ storage_put_object_metadata_create(t)
    \/ storage_put_object_metadata_write(t)
    \/ cancel(t)
    \/ storage_get_object(t)
    \/ object_get_object_metadata(t)
    \/ object_get_object_read(t)
    \/ finish(t)

ApiNext == \E t \in ApiTasks : ApiConcurrentStart(t) \/ ApiConcurrentStep(t)

SpecApi == Init /\ [][ApiNext]_vars

\* Calls one at a time: one caller, each call running to its return.
DbSerialNext == \E t \in {1} : DbStart(t) \/ DbStep(t)

\* Calls as independently scheduled tasks.
DbNext == \E t \in DbTasks : DbStart(t) \/ DbStep(t)

SpecDbSerial == Init /\ [][DbSerialNext]_vars

SpecDb == Init /\ [][DbNext]_vars

\* Every bucket's counters agree with its records.
DbCountersAgree ==
    \A b \in DOMAIN db_buckets :
        /\ db_buckets[b].object_count = DbLiveCount(b)
        /\ db_buckets[b].total_size = DbLiveSize(b)

\* C1: with put_object and delete_object calls executed one at a time, after each
\* call every bucket's object_count is the number of its object records and its
\* total_size is the sum of their sizes.
C1_AccountingAfterEveryCall == DbAllIdle => DbCountersAgree

\* C2: a put_object on a key that has a record leaves object_count unchanged and
\* moves total_size by (new size - old size); on a key with no record it adds 1 to
\* object_count and the object's size to total_size.
C2_PutObjectCounters ==
    (DbAllIdle /\ db_call.op = "put_object" /\ db_call.had_bucket) =>
        LET now == db_buckets[db_call.bucket]
        IN  IF db_call.had_object
            THEN /\ now.object_count = db_call.pre_count
                 /\ now.total_size = db_call.pre_total + db_call.size - db_call.pre_size
            ELSE /\ now.object_count = db_call.pre_count + 1
                 /\ now.total_size = db_call.pre_total + db_call.size

\* C7: when put_object and delete_object calls for different keys run concurrently
\* (no call overwrote a record, no two running calls shared a key, no bucket was
\* being created meanwhile), once all calls have completed every bucket's counters
\* agree with its records.
C7_NoLostCounterUpdate ==
    (DbAllIdle /\ ~db_hist.overwrote /\ ~db_hist.key_clash /\ ~db_hist.create_overlap)
        => DbCountersAgree

\* ------------------------------------------------------------------ the HTTP interface: properties

\* An answered request of one kind.
Answered(t, op) == api_task[t].pc = "done" /\ api_task[t].op = op

\* Whether the table object has a row for (bucket, key).
HasObjectRecord(bucket, key) == \E r \in md_objects : r.bucket = bucket /\ r.key = key

\* C3: after DeleteBucket(b) succeeded and b was created again (and nothing was put
\* into it since), list_objects(b) returns no object, and no key that b held when it
\* was deleted is found in the storage backend or in the table object.
C3_DeleteBucketRemovesObjects ==
    \A x \in api_former :
        (ApiAllIdle /\ x[1] \in md_buckets)
            => /\ list_objects(x[1]) = {}
               /\ ~object_exists(x[1], x[2])
               /\ ~HasObjectRecord(x[1], x[2])

\* C4: between requests made one at a time, every key whose last PutObject was
\* answered 200 (and that was not deleted since) and whose bytes are stored has an
\* object record with the size and ETag of the stored bytes, and an object record
\* exists only for a key whose bytes are stored.
C4_CatalogAgreesWithStorage ==
    ApiAllIdle =>
        \A k \in ApiKeys :
            LET path == object_path(TheBucket, k)
            IN  /\ (<< TheBucket, k >> \in DOMAIN api_commit /\ IsFile(path))
                      => \E r \in md_objects :
                            /\ r.bucket = TheBucket /\ r.key = k
                            /\ r.size = Len(fs_files[path])
                            /\ r.etag = generate_etag(fs_files[path])
                /\ HasObjectRecord(TheBucket, k) => IsFile(path)

\* C5: a GetObject on an existing bucket answers with the complete content of the
\* last completed put of the key (404 when there is none) or with the complete
\* content of a put that was running while the get ran; never with anything else.
C5_GetNeverPartial ==
    \A t \in ApiTasks :
        (Answered(t, "get_object") /\ api_call[t].had_bucket)
            => << api_task[t].status, api_task[t].resp_body >> \in api_call[t].allowed

\* What PutObject request w alone leaves behind: its bytes, its ETag, its metadata.
IsResultOf(w) ==
    LET path == object_path(api_task[w].bucket, api_task[w].key)
        mp == metadata_path(api_task[w].bucket, api_task[w].key)
    IN  /\ IsFile(path) /\ fs_files[path] = api_task[w].body
        /\ api_task[w].etag = generate_etag(fs_files[path])
        /\ IsFile(mp) /\ fs_files[mp] = ToJson(HeaderMetadata(api_task[w].headers))

\* C6: when two PutObject requests for one (bucket, key) have both been answered 200
\* and no other put is running, the stored bytes, the ETag and the sidecar metadata
\* are all those of one of the two requests.
C6_ConcurrentPutsNotMixed ==
    \A t, u \in ApiTasks :
        (/\ t # u
         /\ Answered(t, "put_object") /\ api_task[t].status = 200
         /\ Answered(u, "put_object") /\ api_task[u].status = 200
         /\ api_task[t].bucket = api_task[u].bucket /\ api_task[t].key = api_task[u].key
         /\ \A v \in ApiTasks \ {t, u} : ~(ApiRunning(v) /\ api_task[v].op = "put_object"))
            => IsResultOf(t) \/ IsResultOf(u)

\* The file at a path is the same in the file system as in an earlier copy of it.
SameFile(files, path) ==
    /\ (path \in DOMAIN files) = (path \in DOMAIN fs_files)
    /\ path \in DOMAIN files => files[path] = fs_files[path]

\* C8: for an existing bucket, DeleteObject on a key that holds no object (none put
\* with success and not deleted since) answers 204, also when it repeats the request
\* before it, and leaves the bytes and the sidecar metadata of every other stored
\* object as they were.
C8_DeleteAbsentObject ==
    \A t \in ApiTasks :
        (/\ Answered(t, "delete_object")
         /\ api_call[t].had_bucket
         /\ ~api_call[t].was_live)
            => /\ api_task[t].status = 204
               /\ \A x \in DOMAIN api_commit :
                     /\ SameFile(api_call[t].files, object_path(x[1], x[2]))
                     /\ SameFile(api_call[t].files, metadata_path(x[1], x[2]))

\* A storage delete_object on a (bucket, key) whose object path does not exist has
\* returned.
DeleteOfMissingPath(t) ==
    /\ Answered(t, "delete_object")
    /\ api_call[t].had_bucket
    /\ ~api_call[t].path_existed

\* The request before this one was the same DeleteObject.
RepeatsDelete(t) ==
    /\ api_call[t].last.op = "delete_object"
    /\ api_call[t].last.bucket = api_task[t].bucket
    /\ api_call[t].last.key = api_task[t].key

StorageUnchangedBy(t) == fs_files = api_call[t].files /\ fs_dirs = api_call[t].dirs

\* C9 (as stated): the storage backend's delete_object on a (bucket, key) that holds
\* no object returns Ok and leaves the storage unchanged, the second time in a row
\* as well.
C9_DeleteAbsentReturnsOk ==
    \A t \in ApiTasks :
        DeleteOfMissingPath(t) => api_task[t].storage = "Ok" /\ StorageUnchangedBy(t)

\* C9 (amended): the storage backend's delete_object on a (bucket, key) whose object
\* path does not exist returns Err(ObjectNotFound) and leaves the storage unchanged;
\* repeated at once it returns Err(ObjectNotFound) again; the DeleteObject handler
\* answers 204 each time.
C9_DeleteAbsentReturnsObjectNotFound ==
    \A t \in ApiTasks :
        /\ DeleteOfMissingPath(t)
              => /\ api_task[t].storage = "ObjectNotFound"
                 /\ api_task[t].status = 204
                 /\ StorageUnchangedBy(t)
        /\ (/\ Answered(t, "delete_object")
            /\ RepeatsDelete(t)
            /\ api_call[t].last.storage = "ObjectNotFound")
              => api_task[t].storage = "ObjectNotFound" /\ api_task[t].status = 204

\* A delete_object of a missing path has returned for the second time in a row.
C9_Witness ==
    \E t \in ApiTasks :
        /\ DeleteOfMissingPath(t)
        /\ RepeatsDelete(t)
        /\ api_call[t].last.storage = "ObjectNotFound"
        /\ api_task[t].storage = "ObjectNotFound"

\* C10: DeleteBucket on a name that has no bucket record answers 404 and changes
\* nothing; it answers 204 only when a bucket record existed.
C10_DeleteAbsentBucket ==
    \A t \in ApiTasks :
        Answered(t, "delete_bucket")
            => /\ ~(api_task[t].bucket \in api_call[t].buckets)
                     => api_task[t].status = 404 /\ md_buckets = api_call[t].buckets
               /\ api_task[t].status = 204 => api_task[t].bucket \in api_call[t].buckets

\* ------------------------------------------------------------------ validate_bucket_name on its own

\* All sequences over S of length at most n.
RECURSIVE SeqsUpTo(_, _)
SeqsUpTo(S, n) ==
    IF n = 0 THEN { << >> }
    ELSE LET shorter == SeqsUpTo(S, n - 1)
         IN  shorter \cup { Append(q, c) : q \in shorter, c \in S }

\* "a".repeat(n)
Repeat(c, n) == [ i \in 1..n |-> c ]

\* The names tried: every short name over a few characters of each kind, and long
\* names around the length limit.
NameChars == { "a", "1", "-", ".", "A", "_" }

BucketNameInputs ==
    SeqsUpTo(NameChars, MaxNameLen) \cup { Repeat("a", n) : n \in 62..65 }

ValidateInit ==
    /\ DbInit /\ ApiInit /\ UserInit /\ ListInit /\ ClockInit
    /\ fn_arg \in BucketNameInputs /\ fn_res = "pending"

\* validate_bucket_name(name) is called.
bucket_name_validate ==
    /\ fn_res = "pending"
    /\ fn_res' = validate_bucket_name(fn_arg)
    /\ UNCHANGED <<fn_arg, ls_arg, ls_res, clock, fn_first, store_vars>>

\* The caller takes another name.
bucket_name_next ==
    /\ fn_res # "pending"
    /\ fn_arg' \in BucketNameInputs
    /\ fn_res' = "pending"
    /\ UNCHANGED <<ls_arg, ls_res, clock, fn_first, store_vars>>

ValidateNext == bucket_name_validate \/ bucket_name_next

SpecValidate == ValidateInit /\ [][ValidateNext]_vars

\* The naming grammar: 3 to 63 characters, lowercase letters, digits, "-" and ".",
\* no "-" or "." at either end, no two "." in a row.
NamingGrammar(name) ==
    /\ Len(name) >= 3 /\ Len(name) <= 63
    /\ \A i \in 1..Len(name) : name[i] \in LowerCase \cup Digits \cup {"-", "."}
    /\ name[1] \notin {"-", "."} /\ name[Len(name)] \notin {"-", "."}
    /\ \A i \in 1..(Len(name) - 1) : ~(name[i] = "." /\ name[i + 1] = ".")

\* C12: validate_bucket_name returns Ok exactly for the names of the naming grammar.
C12_ValidateBucketNameGrammar ==
    fn_res # "pending" => (fn_res = "Ok" <=> NamingGrammar(fn_arg))

\* C11: CreateBucket answers 400 to a name outside the grammar and creates no
\* record; otherwise it answers 409 to a name that has a record and leaves the
\* records as they are; otherwise it answers 200 and inserts the record.
C11_CreateBucketDecisionOrder ==
    \A t \in ApiTasks :
        Answered(t, "create_bucket")
            => IF validate_bucket_name(api_task[t].bucket) # "Ok"
               THEN api_task[t].status = 400 /\ md_buckets = api_call[t].buckets
               ELSE IF api_task[t].bucket \in api_call[t].buckets
               THEN api_task[t].status = 409 /\ md_buckets = api_call[t].buckets
               ELSE /\ api_task[t].status = 200
                    /\ md_buckets = api_call[t].buckets \cup { api_task[t].bucket }

\* C13: PutObject with a key that validate_object_key refuses, into an existing
\* bucket, answers 400 and leaves files, directories and object records as they were.
C13_InvalidKeyRejected ==
    \A t \in ApiTasks :
        (/\ Answered(t, "put_object")
         /\ api_call[t].had_bucket
         /\ validate_object_key(api_task[t].key) # "Ok")
            => /\ api_task[t].status = 400
               /\ fs_files = api_call[t].files
               /\ fs_dirs = api_call[t].dirs
               /\ md_objects = {}

\* C14: PutObject addressed to a bucket name without bucket record answers 404
\* without calling the storage backend: files and directories stay as they were.
C14_PutIntoMissingBucket ==
    \A t \in ApiTasks :
        (Answered(t, "put_object") /\ ~api_call[t].had_bucket)
            => /\ api_task[t].status = 404
               /\ api_task[t].storage = "none"
               /\ fs_files = api_call[t].files
               /\ fs_dirs = api_call[t].dirs

\* A PutObject on a deleted bucket, whose files are still stored, was answered 404.
C14_Witness ==
    \E t \in ApiTasks :
        /\ Answered(t, "put_object")
        /\ ~api_call[t].had_bucket
        /\ api_task[t].status = 404
        /\ fs_files # << >>

\* C15: after a PutObject of a key was answered 200, and until the key is deleted,
\* GetObject answers 200 with the bytes of that put and the ETag the put returned,
\* and HeadObject answers 200 with that ETag.
C15_GetReturnsWhatWasPut ==
    \A t \in ApiTasks :
        LET x == << api_task[t].bucket, api_task[t].key >>
        IN  (/\ api_task[t].pc = "done"
             /\ api_task[t].op \in {"get_object", "head_object"}
             /\ api_call[t].had_bucket
             /\ api_call[t].was_live)
                => /\ api_task[t].status = 200
                   /\ api_task[t].op = "get_object" => api_task[t].resp_body = api_commit[x]
                   /\ api_task[t].etag = generate_etag(api_commit[x])

\* C16: GetObject and HeadObject decide existence from the table object: a request
\* for a key that has no row there is answered 404, also while the storage backend
\* holds bytes under that key.
C16_ExistenceFromCatalog ==
    \A t \in ApiTasks :
        (/\ api_task[t].pc = "done"
         /\ api_task[t].op \in {"get_object", "head_object"}
         /\ ~HasObjectRecord(api_task[t].bucket, api_task[t].key))
            => api_task[t].status = 404

\* The symbols of the keys in byte order, and the position of one in it.
SymbolOrder == << ".", "/", "a", "b", "meta", "txt" >>

SymbolRank(c) == CHOOSE i \in 1..Len(SymbolOrder) : SymbolOrder[i] = c

\* s < t as strings.
KeyLess(s, t) ==
    \E i \in 1..(Len(t)) :
        /\ i <= Len(s) + 1
        /\ SubSeq(s, 1, i - 1) = SubSeq(t, 1, i - 1)
        /\ i = Len(s) + 1 \/ SymbolRank(s[i]) < SymbolRank(t[i])

\* The keys a listing returned.
Listed == { ls_res[i] : i \in 1..Len(ls_res) }

\* The keys of a bucket whose last PutObject was answered 200, not deleted since.
LiveKeys(bucket) == { x[2] : x \in { y \in DOMAIN api_commit : y[1] = bucket } }

\* C17: list_objects(bucket, prefix, maxKeys) returns its entries in ascending key
\* order, each a key of that bucket that starts with the prefix, and at most
\* min(maxKeys, 1000) of them (at most 1000 when no maxKeys is given).
C17_ListOrderedFilteredLimited ==
    ls_arg.called =>
        /\ \A i, j \in 1..Len(ls_res) : i < j => KeyLess(ls_res[i], ls_res[j])
        /\ \A k \in Listed : /\ IsFile(PathJoin(bucket_path(ls_arg.bucket), k))
                              /\ \A p \in ls_arg.prefix : IsPrefix(p, k)
        /\ Len(ls_res) <= 1000
        /\ \A max \in ls_arg.max_keys : Len(ls_res) <= max

\* C18: list_objects without prefix and limit returns every key that was put into
\* the bucket and not deleted since, keys with "/" included, under its full key;
\* with prefix p (and no limit) it returns exactly the live keys that start with p.
C18_ListComplete ==
    (ls_arg.called /\ ls_arg.max_keys = {}) =>
        /\ ls_arg.prefix = {} => LiveKeys(ls_arg.bucket) \subseteq Listed
        /\ \A p \in ls_arg.prefix :
              Listed = { k \in LiveKeys(ls_arg.bucket) : IsPrefix(p, k) }

\* ------------------------------------------------------------------ authentication

\* The rows of table user: one user.
UserTable == { [access_key |-> "AKIDEXAMPLE", secret_key |-> "secret"] }

\* MetadataOperations::get_user_by_access_key: the rows found (none or one).
get_user_by_access_key(access_key) == { u \in UserTable : u.access_key = access_key }

\* The signature SigV4Validator::generate_signature computes for a request with a
\* secret key, as a symbol of the key (the request is the one being validated).
generate_signature(secret_key) == << "hmac", secret_key >>

\* Authorization headers.  An Option is a set with at most one member; a signature
\* is the symbol of the key it was made with, or text that is not hexadecimal.
Schemes == { "AWS4-HMAC-SHA256", "Basic" }

Credentials == { {}, { "AKIDEXAMPLE" }, { "AKIDUNKNOWN" } }

SignedHeaderLists == { {}, { << "host", "x-amz-date" >> } }

Signatures == { {}, { generate_signature("secret") }, { generate_signature("other") },
                { << "not-hex" >> } }

AuthorizationHeaders ==
    [algorithm : Schemes, credential : Credentials, signed_headers : SignedHeaderLists,
     signature : Signatures]

\* Requests: path, method, the Authorization header if any, what the timestamp
\* headers hold, and whether the database answers the user query.
AuthPaths == { "/health", "/bkt", "/bkt/a" }

AuthMethods == { "GET", "OPTIONS" }

Timestamps == { "missing", "unparsable", "parsable" }

AuthRequests ==
    [path : AuthPaths, method : AuthMethods,
     authorization : { {} } \cup { {h} : h \in AuthorizationHeaders },
     timestamp : Timestamps, database : { "Ok", "Err" }]

AuthError(message) == [kind |-> "AuthError", message |-> message]

AuthOk(user) == [kind |-> "Ok", message |-> user.access_key]

\* AuthorizationHeader::parse
AuthorizationHeaderParse(header) ==
    IF header.algorithm # "AWS4-HMAC-SHA256"
    THEN AuthError("Invalid authorization algorithm")
    ELSE IF header.credential = {}
    THEN AuthError("Missing credential in authorization header")
    ELSE IF header.signed_headers = {}
    THEN AuthError("Missing signed headers in authorization header")
    ELSE IF header.signature = {}
    THEN AuthError("Missing signature in authorization header")
    ELSE [kind |-> "Ok", message |-> ""]

\* extract_timestamp
extract_timestamp(timestamp) ==
    IF timestamp = "missing"
    THEN AuthError("Missing timestamp header (x-amz-date or Date)")
    ELSE IF timestamp = "unparsable"
    THEN AuthError("Invalid timestamp format")
    ELSE [kind |-> "Ok", message |-> ""]

\* SigV4Validator::validate_signature for the user's secret key: an error, or
\* whether the signatures are equal.
validate_signature(provided, secret_key) ==
    IF provided = << "not-hex" >>
    THEN AuthError("Failed to decode provided signature")
    ELSE [kind |-> "Ok", message |-> IF provided = generate_signature(secret_key)
                                     THEN "valid" ELSE "invalid"]

\* authenticate_request: the AuthContext or the error of the first stage that fails.
authenticate_request(request) ==
    IF request.authorization = {}
    THEN AuthError("Missing Authorization header")
    ELSE LET header == CHOOSE h \in request.authorization : TRUE
             parsed == AuthorizationHeaderParse(header)
         IN  IF parsed.kind # "Ok" THEN parsed
             ELSE IF request.database = "Err"
             THEN [kind |-> "DatabaseError", message |-> "Failed to query user"]
             ELSE LET users == get_user_by_access_key(CHOOSE c \in header.credential : TRUE)
                  IN  IF users = {} THEN AuthError("Invalid access key")
                      ELSE IF extract_timestamp(request.timestamp).kind # "Ok"
                      THEN extract_timestamp(request.timestamp)
                      ELSE LET user == CHOOSE u \in users : TRUE
                               is_valid == validate_signature(
                                               CHOOSE g \in header.signature : TRUE,
                                               user.secret_key)
                           IN  IF is_valid.kind # "Ok" THEN is_valid
                               ELSE IF is_valid.message # "valid"
                               THEN AuthError("Signature verification failed")
                               ELSE AuthOk(user)

\* What a layer hands back: the response it made itself, or the request passed on
\* to the next layer (status 0), with the authentication step it went through.
PassedOn(auth) == [next |-> TRUE, auth |-> auth, status |-> 0, code |-> "", message |-> ""]

Refused(status, code, message) ==
    [next |-> FALSE, auth |-> "failed", status |-> status, code |-> code,
     message |-> message]

\* auth_middleware
auth_middleware(request) ==
    IF request.path = "/health" \/ request.method = "OPTIONS"
    THEN PassedOn("skipped")
    ELSE LET auth_result == authenticate_request(request)
         IN  IF auth_result.kind = "Ok" THEN PassedOn("validated")
             ELSE IF auth_result.kind = "AuthError"
             THEN Refused(403, "AccessDenied", auth_result.message)
             ELSE Refused(500, "", "")

\* The layers create_app puts around the routes, outermost first.
AppLayers == << "TraceLayer", "body_limit_layer", "timeout_layer", "cors_layer",
                "request_id_middleware", "security_headers_middleware" >>

\* The handler the routes of create_app give a GET request to; no route is
\* declared for OPTIONS.
RouteOf(request) ==
    IF request.method # "GET" THEN "none"
    ELSE IF request.path = "/health" THEN "health_check"
    ELSE IF request.path = "/bkt" THEN "get_bucket_location"
    ELSE "get_object"

\* A request served by the router of create_app: through the layers (of those
\* modelled only auth_middleware can refuse a request), then to its handler.
ServedBy(request) ==
    LET through == IF \E i \in 1..Len(AppLayers) : AppLayers[i] = "auth_middleware"
                   THEN auth_middleware(request)
                   ELSE PassedOn("none")
    IN  [through EXCEPT !.code = IF through.next THEN RouteOf(request) ELSE @]

\* No answer yet.
AuthPending == [op |-> "pending", response |-> PassedOn("none")]

AuthInit ==
    /\ DbInit /\ ApiInit /\ UserInit /\ ListInit /\ ClockInit
    /\ fn_arg \in AuthRequests /\ fn_res = AuthPending

\* auth_middleware is called with the request.
auth_middleware_call ==
    /\ fn_res.op = "pending"
    /\ fn_res' = [op |-> "auth_middleware", response |-> auth_middleware(fn_arg)]
    /\ UNCHANGED <<fn_arg, ls_arg, ls_res, clock, fn_first, store_vars>>

\* The request is sent to the router create_app built.
create_app_serve ==
    /\ fn_res.op = "pending"
    /\ fn_res' = [op |-> "create_app", response |-> ServedBy(fn_arg)]
    /\ UNCHANGED <<fn_arg, ls_arg, ls_res, clock, fn_first, store_vars>>

\* The caller takes another request.
auth_next ==
    /\ fn_res.op # "pending"
    /\ fn_arg' \in AuthRequests
    /\ fn_res' = AuthPending
    /\ UNCHANGED <<ls_arg, ls_res, clock, fn_first, store_vars>>

AuthNext == auth_middleware_call \/ create_app_serve \/ auth_next

SpecAuth == AuthInit /\ [][AuthNext]_vars

\* The handlers of bucket and object operations.
BucketAndObjectHandlers == { "get_bucket_location", "get_object" }

\* C19: a request whose path is not /health and whose method is not OPTIONS reaches
\* a bucket or object handler only after its signature was validated against the
\* secret of its access key; a request to /health or with method OPTIONS is passed
\* on without any authentication step.
C19_HandlersBehindAuthentication ==
    fn_res.op = "create_app"
        => IF fn_arg.path = "/health" \/ fn_arg.method = "OPTIONS"
           THEN fn_res.response.next /\ fn_res.response.auth \in { "none", "skipped" }
           ELSE (fn_res.response.next /\ fn_res.response.code \in BucketAndObjectHandlers)
                    => fn_res.response.auth = "validated"

\* The requests auth_middleware refuses.
AuthFailures == { r \in AuthRequests : ~auth_middleware(r).next }

\* C20: every authentication failure gives the same response, status 403 with code
\* AccessDenied and one body, whichever stage failed.
C20_AuthFailuresIndistinguishable ==
    (fn_res.op = "auth_middleware" /\ ~fn_res.response.next)
        => /\ fn_res.response.status = 403
           /\ fn_res.response.code = "AccessDenied"
           /\ \A r \in AuthFailures : auth_middleware(r) = fn_res.response

\* ------------------------------------------------------------------ the error model

\* The variants of ObjectIOError, and the text a variant carries.
ErrorKinds ==
    { "BucketNotFound", "ObjectNotFound", "BucketAlreadyExists", "InvalidBucketName",
      "InvalidObjectKey", "AuthenticationFailed", "AuthorizationFailed", "StorageError",
      "DatabaseError", "ConfigurationError", "InvalidRequest", "InternalError", "IO",
      "Serialization", "Other" }

ErrorDetails == { "", "bkt", "a.txt", "disk full" }

ObjectIOErrors == [kind : ErrorKinds, detail : ErrorDetails]

\* ObjectIOError::status_code
status_code(error) ==
    CASE error.kind = "BucketNotFound" -> 404
      [] error.kind = "ObjectNotFound" -> 404
      [] error.kind = "BucketAlreadyExists" -> 409
      [] error.kind = "InvalidBucketName" -> 400
      [] error.kind = "InvalidObjectKey" -> 400
      [] error.kind = "AuthenticationFailed" -> 401
      [] error.kind = "AuthorizationFailed" -> 403
      [] error.kind = "InvalidRequest" -> 400
      [] error.kind = "StorageError" -> 500
      [] error.kind = "DatabaseError" -> 500
      [] error.kind = "ConfigurationError" -> 500
      [] error.kind = "InternalError" -> 500
      [] error.kind = "IO" -> 500
      [] error.kind = "Serialization" -> 400
      [] error.kind = "Other" -> 500

\* ObjectIOError::s3_error_code
s3_error_code(error) ==
    CASE error.kind = "BucketNotFound" -> "NoSuchBucket"
      [] error.kind = "ObjectNotFound" -> "NoSuchKey"
      [] error.kind = "BucketAlreadyExists" -> "BucketAlreadyExists"
      [] error.kind = "InvalidBucketName" -> "InvalidBucketName"
      [] error.kind = "InvalidObjectKey" -> "InvalidKey"
      [] error.kind = "AuthenticationFailed" -> "InvalidAccessKeyId"
      [] error.kind = "AuthorizationFailed" -> "AccessDenied"
      [] error.kind = "InvalidRequest" -> "InvalidRequest"
      [] OTHER -> "InternalError"

\* No answer yet.
ErrorPending == [op |-> "pending", status |-> 0, code |-> ""]

ErrorInit ==
    /\ DbInit /\ ApiInit /\ UserInit /\ ListInit /\ ClockInit
    /\ fn_arg \in ObjectIOErrors /\ fn_res = ErrorPending

\* status_code and s3_error_code are called on the error.
error_codes ==
    /\ fn_res.op = "pending"
    /\ fn_res' = [op |-> "codes", status |-> status_code(fn_arg),
                  code |-> s3_error_code(fn_arg)]
    /\ UNCHANGED <<fn_arg, ls_arg, ls_res, clock, fn_first, store_vars>>

\* The caller takes another error.
error_next ==
    /\ fn_res.op # "pending"
    /\ fn_arg' \in ObjectIOErrors
    /\ fn_res' = ErrorPending
    /\ UNCHANGED <<ls_arg, ls_res, clock, fn_first, store_vars>>

ErrorNext == error_codes \/ error_next

SpecError == ErrorInit /\ [][ErrorNext]_vars

\* The status and S3 code the taxonomy gives the failure kinds it names.
Taxonomy ==
    [ BucketNotFound |-> << 404, "NoSuchBucket" >>,
      ObjectNotFound |-> << 404, "NoSuchKey" >>,
      BucketAlreadyExists |-> << 409, "BucketAlreadyExists" >>,
      InvalidBucketName |-> << 400, "InvalidBucketName" >>,
      InvalidObjectKey |-> << 400, "InvalidKey" >>,
      InvalidRequest |-> << 400, "InvalidRequest" >>,
      StorageError |-> << 500, "InternalError" >>,
      DatabaseError |-> << 500, "InternalError" >>,
      AuthenticationFailed |-> << 403, "AccessDenied" >>,
      AuthorizationFailed |-> << 403, "AccessDenied" >> ]

\* C21: each failure kind of the taxonomy is mapped to its status and S3 code;
\* authentication and authorization failures both to 403 AccessDenied.
C21_ErrorTaxonomy ==
    (fn_res.op = "codes" /\ fn_arg.kind \in DOMAIN Taxonomy)
        => << fn_res.status, fn_res.code >> = Taxonomy[fn_arg.kind]

\* ------------------------------------------------------------------ AuthorizationHeader::parse

\* str::split: the pieces of s between the separators, empty pieces included.
RECURSIVE SplitOn(_, _)
SplitOn(s, sep) ==
    IF \A i \in 1..Len(s) : s[i] # sep THEN << s >>
    ELSE LET i == CHOOSE j \in 1..Len(s) : s[j] = sep /\ \A k \in 1..(j - 1) : s[k] # sep
         IN  << SubSeq(s, 1, i - 1) >> \o SplitOn(SubSeq(s, i + 1, Len(s)), sep)

\* The header texts tried, as sequences of symbols: a scheme, then up to MaxParts
\* parts with ", " between them.
AlgorithmPrefix == "AWS4-HMAC-SHA256 "

FullCredential ==
    << "AKID", "/", "20230101", "/", "us-east-1", "/", "s3", "/", "aws4_request" >>

HeaderParts ==
    { << "Credential=" >> \o c : c \in { << >>, << "AKID" >>, FullCredential } }
        \cup { << "SignedHeaders=" >> \o h :
                 h \in { << "host", ";", "x-amz-date" >>, << "x-amz-date", ";", "host" >> } }
        \cup { << "Signature=", "abc" >>, << "x" >> }

RECURSIVE JoinParts(_)
JoinParts(parts) ==
    IF parts = << >> THEN << >>
    ELSE IF Len(parts) = 1 THEN parts[1]
    ELSE parts[1] \o << ", " >> \o JoinParts(Tail(parts))

HeaderTexts ==
    { << scheme >> \o JoinParts(parts) :
        scheme \in { AlgorithmPrefix, "Basic " }, parts \in SeqsUpTo(HeaderParts, MaxParts) }

\* The value of the last part that starts with name, if any.
RECURSIVE LastPart(_, _, _)
LastPart(parts, name, found) ==
    IF parts = << >> THEN found
    ELSE LET part == Head(parts)
         IN  LastPart(Tail(parts), name,
                      IF part # << >> /\ part[1] = name THEN { Tail(part) } ELSE found)

\* The loop of AuthorizationHeader::parse over the parts of the header: what it
\* found of each component.  A part is taken by the first name it starts with.
ScanHeader(auth_header) ==
    LET auth_parts == SplitOn(Tail(auth_header), ", ")
        signed == LastPart(auth_parts, "SignedHeaders=", {})
    IN  [algorithm |-> IF auth_header # << >> /\ auth_header[1] = AlgorithmPrefix
                       THEN "AWS4-HMAC-SHA256" ELSE "other",
         credential |-> LastPart(auth_parts, "Credential=", {}),
         signed_headers |-> { SplitOn(h, ";") : h \in signed },
         signature |-> LastPart(auth_parts, "Signature=", {})]

\* AuthorizationHeader::access_key: the credential up to its first "/".
access_key(credential) == SplitOn(credential, "/")[1]

\* AuthorizationHeader::parse on the text of a header, then access_key: the error,
\* or the header with its access key.
ParseHeaderText(auth_header) ==
    LET found == ScanHeader(auth_header)
        parsed == AuthorizationHeaderParse(found)
    IN  IF parsed.kind # "Ok"
        THEN [kind |-> parsed.kind, message |-> parsed.message, access_key |-> << >>,
              signed_headers |-> << >>]
        ELSE [kind |-> "Ok", message |-> "",
              access_key |-> access_key(CHOOSE c \in found.credential : TRUE),
              signed_headers |-> CHOOSE h \in found.signed_headers : TRUE]

ParsePending == [kind |-> "pending", message |-> "", access_key |-> << >>,
                 signed_headers |-> << >>]

ParseInit ==
    /\ DbInit /\ ApiInit /\ UserInit /\ ListInit /\ ClockInit
    /\ fn_arg \in HeaderTexts /\ fn_res = ParsePending

\* AuthorizationHeader::parse is called on the header.
header_parse ==
    /\ fn_res.kind = "pending"
    /\ fn_res' = ParseHeaderText(fn_arg)
    /\ UNCHANGED <<fn_arg, ls_arg, ls_res, clock, fn_first, store_vars>>

\* The caller takes another header.
header_next ==
    /\ fn_res.kind # "pending"
    /\ fn_arg' \in HeaderTexts
    /\ fn_res' = ParsePending
    /\ UNCHANGED <<ls_arg, ls_res, clock, fn_first, store_vars>>

ParseNext == header_parse \/ header_next

SpecParse == ParseInit /\ [][ParseNext]_vars

\* The values a header text gives for a component name, in the order of the text.
ValuesOf(auth_header, name) ==
    LET parts == SplitOn(Tail(auth_header), ", ")
    IN  { Tail(parts[i]) : i \in { j \in 1..Len(parts) : parts[j] # << >> /\ parts[j][1] = name } }

\* A credential of the form access-key/date/region/service/aws4_request.
WellFormedCredential(c) ==
    LET fields == SplitOn(c, "/")
    IN  Len(fields) = 5 /\ \A i \in 1..5 : fields[i] # << >>

\* C22: parse succeeds only for a header that starts with "AWS4-HMAC-SHA256 " and
\* carries Credential=, SignedHeaders= and Signature=, the credential well formed;
\* every other header fails with AuthError.  On success the access key is the
\* credential up to its first "/" and signed_headers the SignedHeaders value split
\* on ";" in its order.
C22_AuthorizationHeaderParse ==
    fn_res.kind # "pending" =>
        LET complete == /\ fn_arg[1] = AlgorithmPrefix
                        /\ ValuesOf(fn_arg, "Credential=") # {}
                        /\ ValuesOf(fn_arg, "SignedHeaders=") # {}
                        /\ ValuesOf(fn_arg, "Signature=") # {}
                        /\ \A c \in ValuesOf(fn_arg, "Credential=") : WellFormedCredential(c)
        IN  /\ fn_res.kind = "Ok" => complete
            /\ ~complete => fn_res.kind = "AuthError"
            /\ fn_res.kind = "Ok" =>
                  /\ \E c \in ValuesOf(fn_arg, "Credential=") :
                        /\ IsPrefix(fn_res.access_key, c)
                        /\ \A i \in 1..Len(fn_res.access_key) : fn_res.access_key[i] # "/"
                        /\ Len(c) > Len(fn_res.access_key)
                              => c[Len(fn_res.access_key) + 1] = "/"
                  /\ \E h \in ValuesOf(fn_arg, "SignedHeaders=") :
                        fn_res.signed_headers = SplitOn(h, ";")

\* ------------------------------------------------------------------ canonical_query_string

\* The characters of the query strings tried: letters and digits, punctuation, and
\* two characters beyond U+00FF.
QueryChars == { "a", "/", "%", "2", "F", "=", "&", "U+0100", "U+0200" }

HexDigits == << "0", "1", "2", "3", "4", "5", "6", "7", "8", "9",
                "A", "B", "C", "D", "E", "F" >>

\* 'A'..='Z' | 'a'..='z' | '0'..='9' | '-' | '_' | '.' | '~'
Unreserved == { "a" } \cup { HexDigits[i] : i \in 1..Len(HexDigits) }

\* The code point of each character that is not unreserved.
CodePoint == [ c \in { "/", "%", "=", "&", "U+0100", "U+0200" } |->
                 CASE c = "/" -> 47
                   [] c = "%" -> 37
                   [] c = "=" -> 61
                   [] c = "&" -> 38
                   [] c = "U+0100" -> 256
                   [] c = "U+0200" -> 512 ]

\* format!("{:02X}", c as u8): the two digits of the code point cut to one byte.
HexOf == [ c \in DOMAIN CodePoint |->
             LET byte == CodePoint[c] % 256
             IN  << HexDigits[(byte \div 16) + 1], HexDigits[(byte % 16) + 1] >> ]

\* percent_encode
RECURSIVE percent_encode(_)
percent_encode(input) ==
    IF input = << >> THEN << >>
    ELSE (IF Head(input) \in Unreserved THEN << Head(input) >>
          ELSE << "%" >> \o HexOf[Head(input)])
         \o percent_encode(Tail(input))

\* The characters in byte order, and String::cmp.
ByteOrder == << "%", "&", "/", "0", "1", "2", "3", "4", "5", "6", "7", "8", "9", "=",
               "A", "B", "C", "D", "E", "F", "a" >>

ByteRank(c) == CHOOSE i \in 1..Len(ByteOrder) : ByteOrder[i] = c

StringLess(s, t) ==
    \E i \in 1..Len(t) :
        /\ i <= Len(s) + 1
        /\ SubSeq(s, 1, i - 1) = SubSeq(t, 1, i - 1)
        /\ i = Len(s) + 1 \/ ByteRank(s[i]) < ByteRank(t[i])

\* param.splitn(2, '='), both pieces encoded: the (key, value) of one parameter.
EncodedParam(param) ==
    LET eq == { i \in 1..Len(param) : param[i] = "=" }
    IN  IF eq = {} THEN << percent_encode(param), << >> >>
        ELSE LET i == CHOOSE j \in eq : \A k \in eq : j <= k
             IN  << percent_encode(SubSeq(param, 1, i - 1)),
                    percent_encode(SubSeq(param, i + 1, Len(param))) >>

\* params.sort_by(|a, b| a.0.cmp(&b.0)): a stable sort by the key.
RECURSIVE InsertByKey(_, _)
InsertByKey(sorted, pair) ==
    IF sorted = << >> THEN << pair >>
    ELSE IF StringLess(pair[1], Head(sorted)[1])
    THEN << pair >> \o sorted
    ELSE << Head(sorted) >> \o InsertByKey(Tail(sorted), pair)

RECURSIVE SortByKey(_)
SortByKey(params) ==
    IF params = << >> THEN << >>
    ELSE InsertByKey(SortByKey(SubSeq(params, 1, Len(params) - 1)), params[Len(params)])

\* format!("{}={}", key, value), or the key alone when the value is empty; the
\* pieces joined with "&".
RECURSIVE JoinParams(_)
JoinParams(params) ==
    IF params = << >> THEN << >>
    ELSE LET pair == Head(params)
             text == IF pair[2] = << >> THEN pair[1] ELSE pair[1] \o << "=" >> \o pair[2]
         IN  IF Len(params) = 1 THEN text
             ELSE text \o << "&" >> \o JoinParams(Tail(params))

\* SigV4Validator::canonical_query_string
canonical_query_string(query_string) ==
    IF query_string = << >> THEN << >>
    ELSE LET pieces == SplitOn(query_string, "&")
             params == [ i \in 1..Len(pieces) |-> EncodedParam(pieces[i]) ]
         IN  JoinParams(SortByKey(params))

\* The query strings tried: every text of up to n characters.
QueryStrings(n) == SeqsUpTo(QueryChars, n)

QueryPending == [op |-> "pending", text |-> << >>]

QueryInit ==
    /\ DbInit /\ ApiInit /\ UserInit /\ ListInit /\ ClockInit
    /\ fn_arg \in QueryStrings(MaxQueryLen) /\ fn_res = QueryPending

\* canonical_query_string is called on the query string.
canonical_query_string_call ==
    /\ fn_res.op = "pending"
    /\ fn_res' = [op |-> "canonical_query_string", text |-> canonical_query_string(fn_arg)]
    /\ UNCHANGED <<fn_arg, ls_arg, ls_res, clock, fn_first, store_vars>>

QueryNext == canonical_query_string_call

SpecQuery == QueryInit /\ [][QueryNext]_vars

\* The character of one byte written as % and two hexadecimal digits.
OneByte == { c \in DOMAIN CodePoint : CodePoint[c] < 256 }

CharOfHex(h) == CHOOSE c \in OneByte : HexOf[c] = h

\* Whether a text is made of literal characters and of escapes %XX.
RECURSIVE WellEncoded(_)
WellEncoded(text) ==
    IF text = << >> THEN TRUE
    ELSE IF Head(text) = "%"
    THEN /\ Len(text) >= 3
         /\ \A i \in 2..3 : \E d \in 1..Len(HexDigits) : HexDigits[d] = text[i]
         /\ WellEncoded(SubSeq(text, 4, Len(text)))
    ELSE Head(text) \in Unreserved /\ WellEncoded(Tail(text))

\* The text an encoded text of one-byte characters stands for.
RECURSIVE PercentDecode(_)
PercentDecode(text) ==
    IF text = << >> THEN << >>
    ELSE IF Head(text) = "%"
    THEN << CharOfHex(SubSeq(text, 2, 3)) >> \o PercentDecode(SubSeq(text, 4, Len(text)))
    ELSE << Head(text) >> \o PercentDecode(Tail(text))

\* A piece "key=value" (or "key") as the pair of its key and value.
PairOf(piece) ==
    LET fields == SplitOn(piece, "=")
    IN  << fields[1], IF Len(piece) = Len(fields[1]) THEN << >>
                      ELSE SubSeq(piece, Len(fields[1]) + 2, Len(piece)) >>

PairsOf(text) == LET pieces == SplitOn(text, "&")
                 IN  [ i \in 1..Len(pieces) |-> PairOf(pieces[i]) ]

Occurrences(seq, x) == Cardinality({ i \in 1..Len(seq) : seq[i] = x })

\* The query strings made of the same parameters in another order.
Reorderings(query_string) ==
    LET pieces == SplitOn(query_string, "&")
        n == Len(pieces)
    IN  { [ i \in 1..n |-> pieces[order[i]] ] :
            order \in { f \in [1..n -> 1..n] : \A i, j \in 1..n : i # j => f[i] # f[j] } }

RECURSIVE JoinWith(_, _)
JoinWith(pieces, sep) ==
    IF pieces = << >> THEN << >>
    ELSE IF Len(pieces) = 1 THEN pieces[1]
    ELSE pieces[1] \o << sep >> \o JoinWith(Tail(pieces), sep)

DistinctKeys(query_string) ==
    LET pairs == PairsOf(query_string)
    IN  \A i, j \in 1..Len(pairs) : i # j => pairs[i][1] # pairs[j][1]

\* C23: canonical_query_string returns the parameters of the query in ascending
\* order of their (encoded) keys, joined with "&"; in keys and values the characters
\* A-Z a-z 0-9 - _ . ~ stay literal and every other character becomes %XX in
\* upper-case hexadecimal, so "%2F" comes out as "%252F"; with distinct keys the
\* result does not depend on the order of the parameters in the query.
C23_CanonicalQueryString ==
    (fn_res.op = "canonical_query_string" /\ fn_arg # << >>) =>
        LET out == PairsOf(fn_res.text)
            inp == PairsOf(fn_arg)
        IN  /\ \A i, j \in 1..Len(out) : i < j => ~StringLess(out[j][1], out[i][1])
            /\ \A i \in 1..Len(out) : WellEncoded(out[i][1]) /\ WellEncoded(out[i][2])
            /\ Len(out) = Len(inp)
            /\ (\A k \in 1..Len(fn_arg) : fn_arg[k] \in Unreserved \cup OneByte) =>
                  \A i \in 1..Len(inp) :
                      Occurrences([ k \in 1..Len(out) |->
                                      << PercentDecode(out[k][1]),
                                         PercentDecode(out[k][2]) >> ],
                                  inp[i])
                          = Occurrences(inp, inp[i])
            /\ fn_arg = << "a", "=", "%", "2", "F" >>
                  => fn_res.text = << "a", "=", "%", "2", "5", "2", "F" >>
            /\ DistinctKeys(fn_arg) =>
                  \A other \in Reorderings(fn_arg) :
                      canonical_query_string(JoinWith(other, "&")) = fn_res.text

\* ------------------------------------------------------------------ SigV4Validator

\* Digests as symbols of what was digested.
Sha256(data) == << "sha256", data >>

hmac_sha256(key, data) == << "hmac", key, data >>

\* The validator create_app's middleware builds.
SigRegion == "us-east-1"

SigService == "s3"

\* Header names in byte order, and the position of a name in it.
HeaderNameOrder == << "host", "user-agent", "x-amz-date" >>

HeaderNameRank(name) == CHOOSE i \in 1..Len(HeaderNameOrder) : HeaderNameOrder[i] = name

\* A stable sort of (name, value) pairs by name.
RECURSIVE InsertByName(_, _)
InsertByName(sorted, pair) ==
    IF sorted = << >> THEN << pair >>
    ELSE IF HeaderNameRank(pair[1]) < HeaderNameRank(Head(sorted)[1])
    THEN << pair >> \o sorted
    ELSE << Head(sorted) >> \o InsertByName(Tail(sorted), pair)

RECURSIVE SortByName(_)
SortByName(pairs) ==
    IF pairs = << >> THEN << >>
    ELSE InsertByName(SortByName(SubSeq(pairs, 1, Len(pairs) - 1)), pairs[Len(pairs)])

\* SigV4Validator::canonical_headers: the headers, in the order the map hands them
\* out, sorted by name.
canonical_headers(headers) == SortByName(headers)

\* SigV4Validator::signed_headers: the names of all headers, sorted.
signed_headers(headers) ==
    LET sorted == SortByName(headers)
    IN  [ i \in 1..Len(sorted) |-> sorted[i][1] ]

\* SigV4Validator::canonical_uri
canonical_uri(uri) == IF uri = "" THEN "/" ELSE uri

\* SigV4Validator::create_canonical_request
create_canonical_request(request) ==
    << request.method, canonical_uri(request.uri),
       canonical_query_string(request.query_string),
       canonical_headers(request.headers), signed_headers(request.headers),
       request.payload_hash >>

\* The string to sign with the time read from the clock.
create_string_to_sign_now(canonical_request, timestamp) ==
    << "AWS4-HMAC-SHA256", clock,
       << timestamp.date, SigRegion, SigService, "aws4_request" >>,
       Sha256(canonical_request) >>

\* SigV4Validator::create_string_to_sign
create_string_to_sign(canonical_request, timestamp) ==
    << "AWS4-HMAC-SHA256", << timestamp.date, timestamp.time >>,
       << timestamp.date, SigRegion, SigService, "aws4_request" >>,
       Sha256(canonical_request) >>

\* SigV4Validator::derive_signing_key
derive_signing_key(secret_key, timestamp) ==
    LET date_key == hmac_sha256(<< "AWS4", secret_key >>, timestamp.date)
        date_region_key == hmac_sha256(date_key, SigRegion)
        date_region_service_key == hmac_sha256(date_region_key, SigService)
    IN  hmac_sha256(date_region_service_key, "aws4_request")

\* SigV4Validator::calculate_signature
calculate_signature(string_to_sign, signing_key) == hmac_sha256(signing_key, string_to_sign)

\* SigV4Validator::generate_signature, from the request.
request_signature(request, secret_key) ==
    LET canonical_request == create_canonical_request(request)
        string_to_sign == create_string_to_sign(canonical_request, request.timestamp)
        signing_key == derive_signing_key(secret_key, request.timestamp)
    IN  calculate_signature(string_to_sign, signing_key)

\* SigV4Validator::validate_signature, from the request: the expected signature
\* and the verdict, or the error of decoding the signature of the header.
request_validate_signature(request, provided, secret_key) ==
    LET expected_signature == request_signature(request, secret_key)
    IN  IF provided = << "not-hex" >>
        THEN [kind |-> "AuthError", expected |-> expected_signature, verdict |-> FALSE]
        ELSE [kind |-> "Ok", expected |-> expected_signature,
              verdict |-> expected_signature = provided]

\* The requests validated: two methods, two query strings, the headers in the two
\* orders a map may hand them out, two timestamps of one day.
SigHeaders ==
    { << << "host", "example" >>, << "x-amz-date", "20230101T000000Z" >> >>,
      << << "x-amz-date", "20230101T000000Z" >>, << "host", "example" >> >> }

SigTimestamps == { [date |-> "20230101", time |-> "000000"],
                   [date |-> "20230101", time |-> "000001"] }

SignatureRequests ==
    [method : { "GET" }, uri : { "/bkt" },
     query_string : { << >>, << "a", "=", "2" >> },
     headers : SigHeaders, payload_hash : { "UNSIGNED-PAYLOAD" },
     timestamp : SigTimestamps]

\* The signatures a header may carry: those of the requests with the user's key,
\* and text that is not hexadecimal.
ProvidedSignatures ==
    { request_signature(r, "secret") : r \in SignatureRequests } \cup { << "not-hex" >> }

SigCalls ==
    [request : SignatureRequests, provided : ProvidedSignatures,
     secret_key : { "secret", "other" }]

SigPending == [kind |-> "pending", expected |-> << >>, verdict |-> FALSE]

SigInit ==
    /\ DbInit /\ ApiInit /\ UserInit /\ ListInit
    /\ clock = 0
    /\ fn_first = NoFirst
    /\ fn_arg \in SigCalls
    /\ fn_res = SigPending

\* validate_signature is called; the first call made is remembered.
validate_signature_call ==
    /\ fn_res.kind = "pending"
    /\ fn_res' = request_validate_signature(fn_arg.request, fn_arg.provided,
                                            fn_arg.secret_key)
    /\ fn_first' = IF fn_first.called THEN fn_first
                   ELSE [called |-> TRUE, arg |-> fn_arg, res |-> fn_res']
    /\ UNCHANGED <<fn_arg, clock, ls_arg, ls_res, store_vars>>

\* Another request is to be validated.
sig_next ==
    /\ fn_res.kind # "pending"
    /\ fn_arg' \in SigCalls
    /\ fn_res' = SigPending
    /\ UNCHANGED <<clock, fn_first, ls_arg, ls_res, store_vars>>

\* Time passes.
clock_tick ==
    /\ clock < MaxClock
    /\ clock' = clock + 1
    /\ UNCHANGED <<fn_arg, fn_res, fn_first, ls_arg, ls_res, store_vars>>

SigNext == validate_signature_call \/ sig_next \/ clock_tick

SpecSig == SigInit /\ [][SigNext]_vars

\* Two calls with the same method, URI, query string, headers (as a set of names
\* and values), payload hash, timestamp, signature of the header and secret.
SameHeaders(h1, h2) ==
    { h1[i] : i \in 1..Len(h1) } = { h2[i] : i \in 1..Len(h2) }

SameSigCall(c1, c2) ==
    /\ [c1.request EXCEPT !.headers = << >>] = [c2.request EXCEPT !.headers = << >>]
    /\ SameHeaders(c1.request.headers, c2.request.headers)
    /\ c1.provided = c2.provided
    /\ c1.secret_key = c2.secret_key

\* C24: two evaluations of validate_signature with the same method, URI, query
\* string, headers, payload hash, timestamp and secret compute the same expected
\* signature and the same verdict, whatever the clock shows and whatever was
\* validated in between.
C24_SignatureDeterministic ==
    (fn_res.kind # "pending" /\ fn_first.called /\ SameSigCall(fn_arg, fn_first.arg))
        => fn_res = fn_first.res

\* A call was repeated later, with the headers handed out in the other order and
\* another call made in between.
C24_Witness ==
    /\ fn_res.kind = "Ok"
    /\ fn_res.verdict
    /\ fn_first.called
    /\ SameSigCall(fn_arg, fn_first.arg)
    /\ fn_arg # fn_first.arg
    /\ clock = MaxClock

\* ------------------------------------------------------------------ users

\* The default admin user of ensure_admin_user.
AdminAccessKey == "AKIAOBJECTIO12345678"

AdminSecretKey == "wJalrXUtnFEMI/K7MDENG+bPxRfiCYzEXAMPLEKEY"

AdminUser == [access_key |-> AdminAccessKey, secret_key |-> AdminSecretKey, is_admin |-> TRUE]

\* The users created by direct calls.
UserInputs ==
    [access_key : { "AKIAUSER1", "AKIAUSER2" }, secret_key : { "secret1", "secret2" },
     is_admin : { FALSE }]

\* admin_user_exists that finds no admin user, whatever the table holds.
admin_user_exists_never == FALSE

\* MetadataOperations::admin_user_exists
admin_user_exists == \E u \in md_users : u.is_admin

\* MetadataOperations::create_user: a row is created unless the unique index on
\* access_key refuses it.
create_user(user) ==
    /\ md_users' = IF \E u \in md_users : u.access_key = user.access_key
                   THEN md_users ELSE md_users \cup { user }
    /\ UNCHANGED <<console, us_res, meta_vars, db_vars, api_vars, fn_arg, fn_res, ls_arg, ls_res,
                   clock, fn_first>>

\* metadata.create_user(access_key, secret_key, display_name), as ensure_admin_user
\* calls it: the user of these keys is created as an admin, unless the unique index
\* on access_key refuses the row.
create_user_from_keys(key, secret) ==
    IF \E u \in md_users : u.access_key = key
    THEN [res |-> "DatabaseError", users |-> md_users]
    ELSE [res |-> "Ok",
          users |-> md_users \cup { [access_key |-> key, secret_key |-> secret,
                                     is_admin |-> TRUE] }]

\* ensure_admin_user: without an admin user, the default one is created and its
\* keys are printed; an error of the store ends the call before that.
ensure_admin_user ==
    LET admin_exists == admin_user_exists
        made == create_user_from_keys(AdminAccessKey, AdminSecretKey)
        res == IF admin_exists THEN "Ok" ELSE made.res
    IN  /\ md_users' = IF admin_exists THEN md_users ELSE made.users
        /\ console' = IF ~admin_exists /\ made.res = "Ok"
                      THEN console \cup { << "Created default admin user:" >>,
                                          << "Access Key:", AdminAccessKey >>,
                                          << "Secret Key:", AdminSecretKey >> }
                      ELSE console
        /\ md_res' = [NoMetaCall EXCEPT !.op = "ensure_admin_user",
                                        !.existed = admin_exists,
                                        !.created = Cardinality(md_users') - Cardinality(md_users),
                                        !.res = res]
        /\ UNCHANGED <<us_res, md_pages, db_vars, api_vars, fn_arg, fn_res, ls_arg, ls_res,
                       clock, fn_first>>

\* MetadataOperations::list_users: every row as a User, all fields of UserRecord
\* copied.
list_users ==
    /\ us_res' = md_users
    /\ UNCHANGED <<md_users, console, meta_vars, db_vars, api_vars, fn_arg, fn_res, ls_arg, ls_res,
                   clock, fn_first>>

\* MetadataOperations::delete_user
delete_user(key) ==
    /\ md_users' = { u \in md_users : u.access_key # key }
    /\ UNCHANGED <<console, us_res, meta_vars, db_vars, api_vars, fn_arg, fn_res, ls_arg, ls_res,
                   clock, fn_first>>

UserNext ==
    \/ \E user \in UserInputs : create_user(user)
    \/ ensure_admin_user
    \/ list_users
    \/ \E user \in UserInputs : delete_user(user.access_key)

SpecUsers == Init /\ [][UserNext]_vars

\* The texts that left through the console or a user listing.
ConsoleTexts == UNION { { line[i] : i \in 1..Len(line) } : line \in console }

ListedTexts == UNION { { u[f] : f \in DOMAIN u \ { "is_admin" } } : u \in us_res }

\* C25: no secret key of a user of the store was printed to the console or is
\* part of a user listing.
C25_SecretNeverLeaves ==
    \A u \in md_users :
        /\ u.secret_key \notin ConsoleTexts
        /\ u.secret_key \notin ListedTexts

\* ------------------------------------------------------------------ validate_object_key

\* Keys are up to MaxKeyRuns long runs, up to MaxKeyPad single characters and one
\* last character or none: lengths 0 to 1028 bytes.
MaxKeyRuns == 4

MaxKeyPad == 26

ObjectKeyInputs ==
    { Repeat(LongRun, k) \o Repeat("a", n) \o last :
        k \in 0..MaxKeyRuns, n \in 0..MaxKeyPad,
        last \in { << >>, << "NUL" >>, << "U+00E9" >>, << "/" >> } }

ObjectKeyInit ==
    /\ DbInit /\ ApiInit /\ UserInit /\ ListInit /\ ClockInit
    /\ fn_arg \in ObjectKeyInputs /\ fn_res = "pending"

\* validate_object_key(key) is called.
object_key_validate ==
    /\ fn_res = "pending"
    /\ fn_res' = validate_object_key(fn_arg)
    /\ UNCHANGED <<fn_arg, ls_arg, ls_res, clock, fn_first, store_vars>>

\* The caller takes another key.
object_key_next ==
    /\ fn_res # "pending"
    /\ fn_arg' \in ObjectKeyInputs
    /\ fn_res' = "pending"
    /\ UNCHANGED <<ls_arg, ls_res, clock, fn_first, store_vars>>

ObjectKeyNext == object_key_validate \/ object_key_next

SpecObjectKey == ObjectKeyInit /\ [][ObjectKeyNext]_vars

\* The key contains a NUL byte.
HasNul(key) == \E i \in 1..Len(key) : key[i] = "NUL"

MaxPages == 3

MetaKeys == { << "a" >>, << "a", "/", "b" >>, << "b" >> }

PageSizes == { 1, 2 }

\* What the object operations of MetadataOperations leave alone.
meta_frame == <<db_vars, md_buckets, fs_files, fs_dirs, api_task, api_call, api_commit,
                api_former, fn_arg, fn_res, ls_arg, ls_res, clock, fn_first, md_users,
                console, us_res>>

\* The rows of table object with this bucket and key.
ObjectRows(bucket, key) == { r \in md_objects : r.bucket = bucket /\ r.key = key }

\* MetadataOperations::put_object_metadata: a row under a fresh id is created, which
\* the unique index on (bucket, key) refuses when the table holds such a row.
put_object_metadata(bucket, key, size, etag) ==
    LET existed == ObjectRows(bucket, key) # {}
        res == IF existed THEN "DatabaseError" ELSE "Ok"
    IN  /\ md_objects' = IF existed THEN md_objects
                         ELSE md_objects \cup { [bucket |-> bucket, key |-> key,
                                                 size |-> size, etag |-> etag] }
        /\ md_res' = [op |-> "put_object_metadata", bucket |-> bucket, key |-> key,
                      size |-> size, etag |-> etag, existed |-> existed,
                      created |-> IF existed THEN 0 ELSE 1, res |-> res]
        /\ md_pages' = NoPages
        /\ UNCHANGED meta_frame

\* MetadataOperations::delete_object
metadata_delete_object(bucket, key) ==
    /\ md_objects' = md_objects \ ObjectRows(bucket, key)
    /\ md_res' = [op |-> "delete_object", bucket |-> bucket, key |-> key, size |-> 0,
                  etag |-> << >>, existed |-> ObjectRows(bucket, key) # {},
                  created |-> 0, res |-> "Ok"]
    /\ md_pages' = NoPages
    /\ UNCHANGED meta_frame

\* ORDER BY key
RECURSIVE OrderByKey(_)
OrderByKey(keys) ==
    IF keys = {} THEN << >>
    ELSE LET first == CHOOSE k \in keys : \A other \in keys \ { k } : KeyLess(k, other)
         IN  << first >> \o OrderByKey(keys \ { first })

\* MetadataOperations::list_objects(bucket, prefix, max_keys): the keys of the rows
\* of the bucket that start with the prefix, ordered by key, the first max_keys of
\* them. The function has no further parameter. The limit is bound as a text, and
\* the database engine decides whether it takes a text for a number: both outcomes
\* are kept.
metadata_list_objects(bucket, prefix, max_keys) ==
    LET keys == { r.key : r \in { x \in md_objects :
                      /\ x.bucket = bucket
                      /\ \A p \in prefix : IsPrefix(p, x.key) } }
        ordered == OrderByKey(keys)
        limited(n) == SubSeq(ordered, 1, IF n < Len(ordered) THEN n ELSE Len(ordered))
    IN  IF max_keys = {} THEN { [res |-> "Ok", keys |-> ordered] }
        ELSE { [res |-> "Ok", keys |-> limited(n)] : n \in max_keys }
             \cup { [res |-> "DatabaseError", keys |-> << >>] }

\* A caller lists the bucket page by page: it keeps the last key of the page it got
\* as marker and asks for the next page; list_objects takes bucket, prefix and
\* max_keys, and the marker goes nowhere. It stops at a page that is not full.
list_page(bucket, n) ==
    LET pages == md_pages.pages
        marker == IF pages = << >> THEN {}
                  ELSE { pages[Len(pages)][Len(pages[Len(pages)])] }
    IN  /\ md_pages.res # "DatabaseError"
        /\ Len(pages) < MaxPages
        /\ pages # << >> => /\ n = md_pages.max_keys
                            /\ Len(pages[Len(pages)]) = n
        /\ \E out \in metadata_list_objects(bucket, {}, { n }) :
              md_pages' = [max_keys |-> n,
                           pages |-> IF out.res = "Ok" THEN Append(pages, out.keys)
                                     ELSE pages,
                           res |-> out.res]
        /\ UNCHANGED <<md_objects, md_res, meta_frame>>

MetaNext ==
    \/ \E key \in MetaKeys, d \in Bodies :
          put_object_metadata(TheBucket, key, Len(d), generate_etag(d))
    \/ \E key \in MetaKeys : metadata_delete_object(TheBucket, key)
    \/ \E n \in PageSizes : list_page(TheBucket, n)

SpecMeta == Init /\ [][MetaNext]_vars

\* All the keys of the pages, in the order they came.
RECURSIVE PagedKeys(_)
PagedKeys(pages) == IF pages = << >> THEN << >> ELSE Head(pages) \o PagedKeys(Tail(pages))

\* The caller got a page that was not full: the listing is over.
PagingOver ==
    /\ md_pages.res = "Ok" /\ md_pages.pages # << >>
    /\ Len(md_pages.pages[Len(md_pages.pages)]) < md_pages.max_keys

\* The keys of the rows of the bucket.
CatalogKeys(bucket) == { r.key : r \in { x \in md_objects : x.bucket = bucket } }

\* C27: a page asked for with the last key of the page before as marker holds only
\* keys strictly greater than that marker, and a listing that is over returned
\* every key of the bucket exactly once.
C27_MarkerPagination ==
    LET pages == md_pages.pages
        all == PagedKeys(pages)
    IN  /\ \A i \in 2..Len(pages) : \A j \in 1..Len(pages[i]) :
              KeyLess(pages[i - 1][Len(pages[i - 1])], pages[i][j])
        /\ PagingOver =>
              /\ { all[i] : i \in 1..Len(all) } = CatalogKeys(TheBucket)
              /\ \A i, j \in 1..Len(all) : all[i] = all[j] => i = j

\* C30: a put_object_metadata for a (bucket, key) that had a row succeeds, and the
\* table then holds exactly one row for that (bucket, key), with the size and the
\* ETag of the call.
C30_PutReplacesRecord ==
    (md_res.op = "put_object_metadata" /\ md_res.existed) =>
        /\ md_res.res = "Ok"
        /\ ObjectRows(md_res.bucket, md_res.key) =
              { [bucket |-> md_res.bucket, key |-> md_res.key, size |-> md_res.size,
                 etag |-> md_res.etag] }

\* ------------------------------------------------------------------ the ETag of a put

\* PutObject requests into two buckets, one after the other, answered by either
\* task: the answer of the request before stays with the other task.
OtherBucket == << "b", "k", "u" >>

EtagBuckets == { TheBucket, OtherBucket }

EtagPuts ==
    { [bucket |-> TheBucket, key |-> << "a" >>, headers |-> h, body |-> << "x", "y" >>] :
        h \in { x \in HeaderSets : x.x_amz_meta_owner = "me" } }
    \cup { [bucket |-> OtherBucket, key |-> << "b" >>, headers |-> h, body |-> d] :
             h \in { x \in HeaderSets : x.x_amz_meta_owner = "you" }, d \in Bodies }

\* The two tasks that answer.
EtagTasks == { t \in ApiTasks : t <= 2 }

OthersAtRest(t) == \A u \in ApiTasks \ { t } : ~ApiRunning(u)

EtagStart(t) ==
    \/ OthersAtRest(t) /\ \E b \in EtagBuckets : bucket_create_bucket(t, b)
    \/ OthersAtRest(t) /\ \E r \in EtagPuts :
                             object_put_object(t, r.bucket, r.key, r.headers, r.body)

EtagStep(t) ==
    \/ storage_put_object_create_dir(t)
    \/ storage_put_object_create_file(t)
    \/ storage_put_object_read(t)
    \/ storage_put_object_read_fails(t)
    \/ storage_put_object_write(t)
    \/ storage_put_object_metadata_create(t)
    \/ storage_put_object_metadata_write(t)
    \/ finish(t)

EtagNext == \E t \in EtagTasks : EtagStart(t) \/ EtagStep(t)

SpecEtag == Init /\ [][EtagNext]_vars

\* The task holds the answer 200 of a PutObject: its ETag header.
PutAnswered(t) ==
    /\ api_task[t].pc = "done"
    /\ api_task[t].op = "put_object"
    /\ api_task[t].status = 200

\* A text of hexadecimal digits.
IsHexText(text) == \A j \in 1..Len(text) : text[j].digit \in { "high", "low" }

\* C28: the ETag a put returns is 64 hexadecimal characters; two puts return the
\* same ETag exactly when their bytes are the same, whatever their bucket, key,
\* metadata and time; an overwrite returns the ETag of the bytes it wrote.
C28_ETagOfContent ==
    /\ \A t \in ApiTasks : PutAnswered(t) =>
          /\ Len(api_task[t].etag) = 64
          /\ IsHexText(api_task[t].etag)
          /\ api_call[t].was_live => api_task[t].etag = generate_etag(api_task[t].body)
    /\ \A t, u \in ApiTasks : (PutAnswered(t) /\ PutAnswered(u)) =>
          (api_task[t].etag = api_task[u].etag <=> api_task[t].body = api_task[u].body)

\* Two puts of the same bytes under another bucket, key and metadata were answered,
\* the later one an overwrite of other bytes.
C28_Witness ==
    /\ PutAnswered(1) /\ PutAnswered(2)
    /\ api_task[1].body = api_task[2].body
    /\ api_task[1].bucket # api_task[2].bucket
    /\ api_task[1].key # api_task[2].key
    /\ api_task[1].headers # api_task[2].headers
    /\ api_call[2].was_live
    /\ api_commit[<< api_task[2].bucket, api_task[2].key >>] = api_task[2].body

\* ------------------------------------------------------------------ constant_time_eq

\* The bits of a u8.
ByteWidth == 8

\* x ^ y and x | y on w bits.
RECURSIVE BitXor(_, _, _)
BitXor(x, y, w) ==
    IF w = 0 THEN 0
    ELSE (((x % 2) + (y % 2)) % 2) + 2 * BitXor(x \div 2, y \div 2, w - 1)

RECURSIVE BitOr(_, _, _)
BitOr(x, y, w) ==
    IF w = 0 THEN 0
    ELSE (IF (x % 2) + (y % 2) > 0 THEN 1 ELSE 0) + 2 * BitOr(x \div 2, y \div 2, w - 1)

\* result = a[i] ^ b[i], what was gathered before forgotten.
GatherLast(result, x, y) == BitXor(x, y, ByteWidth)

\* result |= a[i] ^ b[i]
Gather(result, x, y) == BitOr(result, BitXor(x, y, ByteWidth), ByteWidth)

\* The slices compared: up to MaxBytes bytes each.
MaxBytes == 3

ByteValues == { 0, 1, 254 }

ByteSlices == SeqsUpTo(ByteValues, MaxBytes)

CtPending == [pc |-> "pending", i |-> 0, result |-> 0, seen |-> {}, ret |-> FALSE]

CtInit ==
    /\ DbInit /\ ApiInit /\ UserInit /\ ListInit /\ ClockInit
    /\ fn_arg \in [a : ByteSlices, b : ByteSlices]
    /\ fn_res = CtPending

\* constant_time_eq(a, b) is called: slices of different length return false at
\* once, the others enter the loop with result = 0.
constant_time_eq_call ==
    /\ fn_res.pc = "pending"
    /\ fn_res' = IF Len(fn_arg.a) # Len(fn_arg.b)
                 THEN [CtPending EXCEPT !.pc = "returned", !.ret = FALSE]
                 ELSE [CtPending EXCEPT !.pc = "loop"]
    /\ UNCHANGED <<fn_arg, ls_arg, ls_res, clock, fn_first, store_vars>>

\* for i in 0..a.len(): one round of the loop (positions counted from 1 here).
constant_time_eq_round ==
    /\ fn_res.pc = "loop"
    /\ fn_res.i < Len(fn_arg.a)
    /\ LET i == fn_res.i + 1
       IN  fn_res' = [fn_res EXCEPT !.i = i,
                                    !.result = Gather(@, fn_arg.a[i], fn_arg.b[i]),
                                    !.seen = @ \cup { i }]
    /\ UNCHANGED <<fn_arg, ls_arg, ls_res, clock, fn_first, store_vars>>

\* The loop is over: result == 0 is returned.
constant_time_eq_return ==
    /\ fn_res.pc = "loop"
    /\ fn_res.i = Len(fn_arg.a)
    /\ fn_res' = [fn_res EXCEPT !.pc = "returned", !.ret = (fn_res.result = 0)]
    /\ UNCHANGED <<fn_arg, ls_arg, ls_res, clock, fn_first, store_vars>>

CtNext == constant_time_eq_call \/ constant_time_eq_round \/ constant_time_eq_return

SpecCt == CtInit /\ [][CtNext]_vars

\* C29: constant_time_eq returns true exactly for slices of the same length that
\* are equal byte for byte, false for slices of different length, and for slices
\* of the same length it has looked at every position, in as many rounds as the
\* slices are long, wherever the first mismatch is.
C29_ConstantTimeEq ==
    fn_res.pc = "returned" =>
        /\ fn_res.ret <=> (/\ Len(fn_arg.a) = Len(fn_arg.b)
                           /\ \A i \in 1..Len(fn_arg.a) : fn_arg.a[i] = fn_arg.b[i])
        /\ Len(fn_arg.a) # Len(fn_arg.b) => ~fn_res.ret
        /\ Len(fn_arg.a) = Len(fn_arg.b) =>
              /\ fn_res.seen = 1..Len(fn_arg.a)
              /\ fn_res.i = Len(fn_arg.a)

\* Slices of the greatest length that differ in their first byte only were
\* compared to the end.
C29_Witness ==
    /\ fn_res.pc = "returned" /\ ~fn_res.ret
    /\ Len(fn_arg.a) = MaxBytes /\ Len(fn_arg.b) = MaxBytes
    /\ fn_arg.a[1] # fn_arg.b[1]
    /\ \A i \in 2..MaxBytes : fn_arg.a[i] = fn_arg.b[i]
    /\ fn_res.i = MaxBytes

\* ------------------------------------------------------------------ further properties

\* The call a caller of ObjectDB made last has returned.
DbReturned(t, op) == db_task[t].pc = "idle" /\ db_task[t].op = op

\* C31: of the create_bucket calls for one name, those run together included, only
\* one returns success: the others fail with the already-exists error.
C31_CreateBucketUniqueUnderConcurrency ==
    \A t, u \in DbTasks :
        (/\ t # u
         /\ DbReturned(t, "create_bucket") /\ DbReturned(u, "create_bucket")
         /\ db_task[t].bucket = db_task[u].bucket
         /\ db_task[t].ret = "ok")
            => db_task[u].ret = "err_already_exists"

\* The users that hold the access key of the default admin.
DefaultAdmins == { u \in md_users : u.access_key = AdminAccessKey }

DbAnyStart(t) ==
    \/ \E b \in DbBucketNames : create_bucket(t, BucketInfoNew(b))
    \/ \E b \in DbBucketNames, k \in DbKeys, s \in Sizes : put_object(t, ObjectInfo(b, k, s))
    \/ \E b \in DbBucketNames, k \in DbKeys : delete_object(t, b, k)

DbAnyNext == \E t \in {1} : DbAnyStart(t) \/ DbStep(t)

SpecDbAny == Init /\ [][DbAnyNext]_vars

\* A delete_object call for a (bucket, key) without a record starts (and returns).
DeleteOfAbsent ==
    /\ db_calls' # db_calls
    /\ db_call'.op = "delete_object"
    /\ ~db_call'.had_object

\* C33: delete_object for a (bucket, key) without a record returns false and
\* changes neither the object records nor the counters; for a record that exists it
\* takes 1 from object_count and the size of the record from total_size, and no
\* counter is below zero.
C33_DeleteObjectCounters ==
    /\ [][DeleteOfAbsent => /\ db_task'[db_call'.task].ret = "false"
                            /\ db_task'[db_call'.task].pc = "idle"
                            /\ UNCHANGED <<db_buckets, db_objects>>]_vars
    /\ [](\A b \in DOMAIN db_buckets :
             db_buckets[b].object_count >= 0 /\ db_buckets[b].total_size >= 0)
    /\ []((DbAllIdle /\ db_call.op = "delete_object" /\ db_call.had_object
              /\ db_call.had_bucket) =>
             /\ db_task[db_call.task].ret = "true"
             /\ db_buckets[db_call.bucket].object_count = db_call.pre_count - 1
             /\ db_buckets[db_call.bucket].total_size = db_call.pre_total - db_call.pre_size)

\* What get_object(bucket, key) reads in a file system with these files: the bytes
\* of the regular file at the object path, nothing when there is none.
BytesIn(files, bucket, key) ==
    LET path == object_path(bucket, key)
    IN  IF path \in DOMAIN files THEN { files[path] } ELSE {}

\* What get_object_metadata(bucket, key) reads in a file system with these files.
MetadataIn(files, bucket, key) ==
    LET mp == metadata_path(bucket, key)
    IN  IF mp \in DOMAIN files /\ IsJsonMap(files[mp]) THEN files[mp] ELSE EmptyJson

\* A put or a delete of an object in an existing bucket went to the storage and
\* was answered.
StorageCallAnswered(t) ==
    /\ Answered(t, "put_object") \/ Answered(t, "delete_object")
    /\ api_call[t].had_bucket
    /\ validate_object_key(api_task[t].key) = "Ok"

\* C34: a put or a delete of key k leaves the bytes and the metadata map read for
\* every other key of the bucket as they were before the call, also for keys that
\* differ only in the extension and keys that end in ".meta".
C34_KeysIndependent ==
    \A t \in ApiTasks :
        StorageCallAnswered(t) =>
            \A k \in ApiKeys \ { api_task[t].key } :
                /\ BytesIn(fs_files, api_task[t].bucket, k)
                      = BytesIn(api_call[t].files, api_task[t].bucket, k)
                /\ MetadataIn(fs_files, api_task[t].bucket, k)
                      = MetadataIn(api_call[t].files, api_task[t].bucket, k)

\* A PutObject in an existing bucket was refused by the storage.
PutFailed(t) ==
    /\ Answered(t, "put_object")
    /\ api_call[t].had_bucket
    /\ api_task[t].storage = "StorageError"

\* C35: a put_object that returns an error leaves the object as it was before the
\* call: the bytes and the metadata read under the key are those read before, and a
\* key without an object still has none.
C35_FailedPutLeavesObject ==
    \A t \in ApiTasks :
        PutFailed(t) =>
            /\ BytesIn(fs_files, api_task[t].bucket, api_task[t].key)
                  = BytesIn(api_call[t].files, api_task[t].bucket, api_task[t].key)
            /\ MetadataIn(fs_files, api_task[t].bucket, api_task[t].key)
                  = MetadataIn(api_call[t].files, api_task[t].bucket, api_task[t].key)

\* ---- validate_signature on two requests that differ in headers only

HostHeader == << "host", "example" >>

DateHeader == << "x-amz-date", "20230101T000000Z" >>

\* Header maps: the two headers a client signs, with or without a user-agent
\* header, and one with another host.
SignedSigHeaders ==
    { << HostHeader, DateHeader >>,
      << HostHeader, << "user-agent", "curl" >>, DateHeader >>,
      << HostHeader, << "user-agent", "wget" >>, DateHeader >>,
      << << "host", "other" >>, DateHeader >> }

SignedRequest(headers) ==
    [method |-> "GET", uri |-> "/bkt", query_string |-> << >>, headers |-> headers,
     payload_hash |-> "UNSIGNED-PAYLOAD", timestamp |-> [date |-> "20230101", time |-> "000000"]]

\* AuthorizationHeader: the SignedHeaders list and the signature a client computed.
\* A client signs the listed headers of its request and nothing else.
HeadersNamed(headers, names) == SelectSeq(headers, LAMBDA h : h[1] \in names)

SignedAuthHeaders ==
    { [signed_headers |-> names,
       signature |-> request_signature(SignedRequest(HeadersNamed(h, names)), "secret")] :
         names \in { {"host", "x-amz-date"}, {"host", "user-agent", "x-amz-date"} },
         h \in SignedSigHeaders }

SignedCalls ==
    [headers : SignedSigHeaders, other_headers : SignedSigHeaders,
     auth_header : SignedAuthHeaders, secret_key : { "secret" }]

SignedPending == [kind |-> "pending", verdict |-> FALSE, other_verdict |-> FALSE]

SignedInit ==
    /\ DbInit /\ ApiInit /\ UserInit /\ ListInit /\ ClockInit
    /\ fn_arg \in SignedCalls
    /\ fn_res = SignedPending

\* validate_signature on the request with the one header map and on the request
\* with the other, under the same parsed Authorization header.
validate_signature_pair ==
    /\ fn_res.kind = "pending"
    /\ fn_res' = [kind |-> "Ok",
                  verdict |-> request_validate_signature(
                                  SignedRequest(fn_arg.headers),
                                  fn_arg.auth_header.signature, fn_arg.secret_key).verdict,
                  other_verdict |-> request_validate_signature(
                                  SignedRequest(fn_arg.other_headers),
                                  fn_arg.auth_header.signature, fn_arg.secret_key).verdict]
    /\ UNCHANGED <<fn_arg, clock, fn_first, ls_arg, ls_res, store_vars>>

signed_next ==
    /\ fn_res.kind # "pending"
    /\ fn_arg' \in SignedCalls
    /\ fn_res' = SignedPending
    /\ UNCHANGED <<clock, fn_first, ls_arg, ls_res, store_vars>>

SignedNext == validate_signature_pair \/ signed_next

SpecSigned == SignedInit /\ [][SignedNext]_vars

\* The two header maps give every header named in SignedHeaders the same values.
AgreeOnSigned(h1, h2, names) ==
    { h1[i] : i \in { j \in 1..Len(h1) : h1[j][1] \in names } }
        = { h2[i] : i \in { j \in 1..Len(h2) : h2[j][1] \in names } }

\* C36: two requests with the same method, URI, query, payload hash, timestamp and
\* Authorization header that agree on every header named in SignedHeaders get the
\* same verdict from validate_signature, whatever their other headers are.
C36_VerdictDependsOnSignedHeaders ==
    (/\ fn_res.kind = "Ok"
     /\ AgreeOnSigned(fn_arg.headers, fn_arg.other_headers, fn_arg.auth_header.signed_headers))
        => fn_res.verdict = fn_res.other_verdict

\* ---- PutObject and DeleteBucket as independently scheduled requests

BucketTasks == { t \in ApiTasks : t <= 2 }

ApiBucketStart(t) ==
    \/ bucket_create_bucket(t, TheBucket)
    \/ bucket_delete_bucket(t, TheBucket)
    \/ \E r \in ConcurrentPuts : object_put_object(t, TheBucket, ConcurrentKey, r[1], r[2])

ApiBucketStep(t) ==
    \/ storage_put_object_create_dir(t)
    \/ storage_put_object_create_file(t)
    \/ storage_put_object_read(t)
    \/ storage_put_object_read_fails(t)
    \/ storage_put_object_write(t)
    \/ storage_put_object_metadata_create(t)
    \/ storage_put_object_metadata_write(t)
    \/ finish(t)

ApiBucketNext == \E t \in BucketTasks : ApiBucketStart(t) \/ ApiBucketStep(t)

SpecApiBucket == Init /\ [][ApiBucketNext]_vars

\* Whether these files and these rows hold nothing under the bucket name.
NothingUnder(bucket, files, rows) ==
    /\ \A path \in DOMAIN files : ~IsPrefix(bucket_path(bucket), path)
    /\ \A r \in rows : r.bucket # bucket

\* PutObject t, which found its bucket, is answered in this step, after DeleteBucket
\* u of that bucket was answered while t was running.
PutCompletesAfterDelete(t, u) ==
    /\ t # u
    /\ api_task[t].op = "put_object"
    /\ ApiRunning(t)
    /\ api_task'[t].pc = "done"
    /\ api_call[t].had_bucket
    /\ Answered(u, "delete_bucket")
    /\ api_task[u].status = 204
    /\ api_task[u].bucket = api_task[t].bucket
    /\ api_task[t].bucket \notin md_buckets

\* C37: when a PutObject and a DeleteBucket of its bucket ran concurrently and both
\* are answered, the bucket record exists, or neither bytes nor an object record
\* exist under the bucket name.
C37_NoOrphanAfterDeleteBucket ==
    [][\A t, u \in BucketTasks :
          PutCompletesAfterDelete(t, u) =>
              \/ api_task[t].bucket \in md_buckets'
              \/ NothingUnder(api_task[t].bucket, fs_files', md_objects')]_vars

\* ---- percent_encode on its own

MaxEncodeLen == 2

EncodeChars == { "a", "/", "%", "U+0100", "U+0200" }

EncodeStrings(n) == SeqsUpTo(EncodeChars, n)

EncodePending == [op |-> "pending", first |-> << >>, second |-> << >>]

EncodeInit ==
    /\ DbInit /\ ApiInit /\ UserInit /\ ListInit /\ ClockInit
    /\ fn_arg \in [first : EncodeStrings(MaxEncodeLen), second : EncodeStrings(MaxEncodeLen)]
    /\ fn_res = EncodePending

\* percent_encode is called on each of the two strings.
percent_encode_call ==
    /\ fn_res.op = "pending"
    /\ fn_res' = [op |-> "percent_encode", first |-> percent_encode(fn_arg.first),
                  second |-> percent_encode(fn_arg.second)]
    /\ UNCHANGED <<fn_arg, ls_arg, ls_res, clock, fn_first, store_vars>>

EncodeNext == percent_encode_call

SpecEncode == EncodeInit /\ [][EncodeNext]_vars

\* The bytes of the UTF-8 encoding of a code point below U+0800.
Utf8Bytes(cp) ==
    IF cp < 128 THEN << cp >>
    ELSE << 192 + (cp \div 64), 128 + (cp % 64) >>

\* One %XX group, in upper-case hexadecimal, for each byte.
RECURSIVE HexGroups(_)
HexGroups(bytes) ==
    IF bytes = << >> THEN << >>
    ELSE << "%", HexDigits[(Head(bytes) \div 16) + 1], HexDigits[(Head(bytes) % 16) + 1] >>
         \o HexGroups(Tail(bytes))

\* The encoding the rule describes: unreserved characters as they are, every other
\* character as the %XX groups of its UTF-8 bytes.
RECURSIVE Utf8PercentEncoded(_)
Utf8PercentEncoded(input) ==
    IF input = << >> THEN << >>
    ELSE (IF Head(input) \in Unreserved THEN << Head(input) >>
          ELSE HexGroups(Utf8Bytes(CodePoint[Head(input)])))
         \o Utf8PercentEncoded(Tail(input))

\* C38: percent_encode writes every character that is not unreserved as one %XX
\* group per byte of its UTF-8 encoding, and two different characters never get the
\* same output.
C38_PercentEncodeUtf8 ==
    fn_res.op = "percent_encode" =>
        /\ fn_res.first = Utf8PercentEncoded(fn_arg.first)
        /\ (Len(fn_arg.first) = 1 /\ Len(fn_arg.second) = 1 /\ fn_arg.first # fn_arg.second)
              => fn_res.first # fn_res.second

====
